---------------------------- MODULE Spec2Model ----------------------------
(***************************************************************************)
(* A model of the expression core of ysh: the bracket-aware tokenizer      *)
(* (parse / token_generator / tokenize), the shunting_yard reorderer, the  *)
(* operator engine on entity values and the postfix evaluator.             *)
(*                                                                         *)
(* Characters are one-character strings and a text is a sequence of them.  *)
(* A ysh::string is a view [buf, data, size]: size characters of the       *)
(* NUL-terminated buffer buf, starting at offset data.                     *)
(***************************************************************************)
EXTENDS Integers, Sequences, FiniteSets, TLC

(***************************************************************************)
(* Bounds of the model.                                                    *)
(***************************************************************************)
\* longest line drawn from LexAlphabet for the tokenizer
MaxLineLen == 3
\* iterations of the scan loop of parse that are followed on one line
MaxIters == 10

(***************************************************************************)
(* ysh::string (a std::string_view with its own copy constructor).         *)
(***************************************************************************)
\* a view of the whole of a buffer, e.g. one built from a literal
View(buf) == [buf |-> buf, data |-> 0, size |-> Len(buf)]

\* the characters a view denotes
Text(str) == SubSeq(str.buf, str.data + 1, str.data + str.size)

\* string(string const& other) : base_type(other.data()): the copy is
\* measured again from data() up to the terminating NUL of the buffer
string_copy(str) == [buf |-> str.buf, data |-> str.data, size |-> Len(str.buf) - str.data]

(***************************************************************************)
(* The tokenizer.                                                          *)
(***************************************************************************)
VARIABLES
    line,        \* the buffer tokenize was called with
    it,          \* parse: scan position (offset into line)
    begin,       \* parse: start of the token being scanned
    s,           \* parse: the stack of open delimiters
    co,          \* the coroutine: "initial", "running", "yielded", "done", "thrown"
    site,        \* the co_yield the coroutine is suspended at: "space", "close", "none"
    value,       \* promise_type::value, the pair last yielded
    m_handle,    \* token_generator::m_handle is non-null
    frame,       \* the coroutine frame: "alive", "destroyed"
    result,      \* tokenize: the vector being filled
    tpc,         \* tokenize: "start", "begin", "loop", "inc", "returned", "threw"
    err,         \* what() of the exception that left tokenize, or "none"
    iters        \* iterations of the scan loop executed so far

lexVars == <<line, it, begin, s, co, site, value, m_handle, frame, result, tpc, err, iters>>

VARIABLES
    npos_at_end  \* the build: whether begin() + npos compares equal to end()

VARIABLES
    tokens,      \* shunting_yard: the argument
    postfix,     \* shunting_yard: what the call produced
    rpc          \* "call" before the call, "done" after it

reorderVars == <<tokens, postfix, rpc>>

\* the build: whether a read or a store through a null unique_ptr traps
VARIABLES null_deref_traps
\* one call of an operator of the engine
VARIABLES lhs, rhs, op, ret, opc
opsVars == <<lhs, rhs, op, ret, opc>>

\* one call of evaluate
VARIABLES expr, env, g_variables, spaced_expr, postfix_tokens, operands, ek, eret, epc
evalVars == <<expr, env, g_variables, spaced_expr, postfix_tokens, operands, ek, eret, epc>>

\* one use of tuple_t: the operands and what the calls produced
VARIABLES range, tup_a, tup_b, tup_c, tuple_out, other_out, list_out, eq_out, upc
tupleVars == <<range, tup_a, tup_b, tup_c, tuple_out, other_out, list_out, eq_out, upc>>

vars == <<lexVars, npos_at_end, reorderVars, null_deref_traps, opsVars, evalVars, tupleVars>>

\* the variables of the other components, which a tokenizer step leaves alone
LexOnly == UNCHANGED <<npos_at_end, reorderVars, null_deref_traps, opsVars, evalVars, tupleVars>>

\* the state of a component that is not exercised
ReorderIdle == tokens = <<>> /\ postfix = [result |-> <<>>, ub |-> FALSE] /\ rpc = "idle"
\* what a variant holds: the alternative and its payload, in the field of
\* its kind (v is the payload of alternative alt)
Payload(alt, v) ==
    [alt |-> alt,
     int |-> IF alt = "int_t" THEN v ELSE 0,
     real |-> IF alt = "real_t" THEN v ELSE [n |-> 0, d |-> 1],
     text |-> IF alt = "str_t" THEN v ELSE <<>>,
     items |-> IF alt \in {"list_t", "tuple_t"} THEN v ELSE <<>>,
     what |-> IF alt \in {"int_t", "real_t", "str_t", "list_t", "tuple_t"} THEN "" ELSE v]
ValueOf(m) ==
    CASE m.alt = "int_t" -> m.int [] m.alt = "real_t" -> m.real [] m.alt = "str_t" -> m.text
      [] m.alt \in {"list_t", "tuple_t"} -> m.items [] OTHER -> m.what
NoEntity == [m_type |-> "NONE", m_value |-> Payload("idle", "")]
OpsIdle ==
    /\ null_deref_traps = FALSE
    /\ lhs = NoEntity /\ rhs = NoEntity /\ op = "none" /\ ret = NoEntity /\ opc = "idle"
EvalIdle ==
    /\ expr = <<>> /\ env = <<>> /\ g_variables = <<>>
    /\ spaced_expr = <<>> /\ postfix_tokens = <<>> /\ operands = <<>>
    /\ ek = 0 /\ eret = NoEntity /\ epc = "idle"

TupleIdle ==
    /\ range = <<>> /\ tup_a = <<>> /\ tup_b = <<>> /\ tup_c = <<>>
    /\ tuple_out = <<>> /\ other_out = <<>> /\ list_out = <<>> /\ eq_out = NoEntity
    /\ upc = "idle"

LexAlphabet == {" ", "a", "(", ")", "]", "\"", "\\"}

RECURSIVE TextsUpTo(_, _)
TextsUpTo(alphabet, n) ==
    IF n = 0 THEN {<<>>}
    ELSE LET shorter == TextsUpTo(alphabet, n - 1)
         IN  shorter \cup {Append(t, c) : t \in {u \in shorter : Len(u) = n - 1}, c \in alphabet}

\* echo"123"
EchoLine == <<"e", "c", "h", "o", "\"", "1", "2", "3", "\"">>

Lines == TextsUpTo(LexAlphabet, MaxLineLen) \cup {EchoLine, <<"(", "]">>, <<"a", " ", "a">>}

\* the backquote character (it cannot be written in a string here)
Backquote == "BACKQUOTE"

\* static compound in parse: the closing symbol of each opening one
compound == [c \in {"(", "{", "[", "'", "\"", Backquote} |->
                CASE c = "(" -> ")"
                  [] c = "{" -> "}"
                  [] c = "[" -> "]"
                  [] OTHER   -> c]

Openers == {"(", "[", "{", "'", "\"", Backquote}
Closers == {")", "]", "}"}

\* promise_type::yield_value: the kind follows from the first character
token_type(str) ==
    IF str.size = 0 THEN "YSH_EMPTY"
    ELSE LET c == Text(str)[1]
         IN  CASE c = "#"  -> "YSH_COMMENT"
               [] c = "("  -> "YSH_EXPRESSION"
               [] c = "-"  -> "YSH_OPTION"
               [] c = "["  -> "YSH_PACK"
               [] c = "{"  -> "YSH_SCRIPT"
               [] c = "\"" -> "YSH_STRING"
               [] c \in {"<", ">", "|", "&"} -> "YSH_OPERATOR"
               [] OTHER    -> "YSH_NAME"

\* co_yield { first, last }: the view [first, last) of line and its kind
yield_value(first, last) ==
    LET str == [buf |-> line, data |-> first, size |-> last - first]
    IN  [type |-> token_type(str), input |-> str]

NoValue == [type |-> "YSH_COMMENT", input |-> View(<<>>)]

LexInit ==
    /\ line \in Lines
    /\ it = 0 /\ begin = 0 /\ s = <<>>
    /\ co = "initial" /\ site = "none"
    /\ value = NoValue
    /\ m_handle = TRUE /\ frame = "alive"
    /\ result = <<>> /\ tpc = "start" /\ err = "none"
    /\ iters = 0
    /\ npos_at_end = FALSE /\ ReorderIdle /\ OpsIdle /\ EvalIdle /\ TupleIdle

\* an exception leaves the coroutine through unhandled_exception and resume(),
\* and then tokenize: gen is destroyed during unwinding
Throw(msg) ==
    /\ co' = "thrown" /\ err' = msg /\ tpc' = "threw"
    /\ frame' = IF m_handle THEN "destroyed" ELSE frame
    /\ UNCHANGED <<line, begin, s, site, value, m_handle, result>>

\* while (it != end) fails: the body ends, return_void, final_suspend
ParseReturn ==
    /\ LexOnly
    /\ co = "running" /\ it = Len(line)
    /\ co' = "done"
    /\ UNCHANGED <<line, it, begin, s, site, value, m_handle, frame, result, tpc, err, iters>>

\* case ' ': co_yield { begin, it }
ParseSpace ==
    /\ LexOnly
    /\ co = "running" /\ it < Len(line) /\ iters < MaxIters
    /\ line[it + 1] = " "
    /\ value' = yield_value(begin, it)
    /\ co' = "yielded" /\ site' = "space"
    /\ iters' = iters + 1
    /\ UNCHANGED <<line, it, begin, s, m_handle, frame, result, tpc, err>>

\* case of an opening symbol: s.push(ch); break
ParseOpen ==
    /\ LexOnly
    /\ co = "running" /\ it < Len(line) /\ iters < MaxIters
    /\ line[it + 1] \in Openers
    /\ s' = Append(s, line[it + 1])
    /\ iters' = iters + 1
    /\ UNCHANGED <<line, it, begin, co, site, value, m_handle, frame, result, tpc, err>>

\* case ')' ']' '}'
ParseClose ==
    /\ LexOnly
    /\ co = "running" /\ it < Len(line) /\ iters < MaxIters
    /\ line[it + 1] \in Closers
    /\ iters' = iters + 1
    /\ IF s = <<>>
       THEN Throw("unbalanced parentheses") /\ it' = it
       ELSE IF compound[s[Len(s)]] = line[it + 1]
            THEN /\ s' = SubSeq(s, 1, Len(s) - 1)
                 /\ IF s' = <<>>
                    THEN \* co_yield { begin, ++it }
                         /\ it' = it + 1
                         /\ value' = yield_value(begin, it + 1)
                         /\ co' = "yielded" /\ site' = "close"
                    ELSE UNCHANGED <<it, value, co, site>>
                 /\ UNCHANGED <<line, begin, m_handle, frame, result, tpc, err>>
            ELSE \* no match: nothing is done, break
                 UNCHANGED <<line, it, begin, s, co, site, value, m_handle, frame, result, tpc, err>>

\* case '\\': ++it; the escaped character is read and control falls into default
ParseEscape ==
    /\ LexOnly
    /\ co = "running" /\ it < Len(line) /\ iters < MaxIters
    /\ line[it + 1] = "\\"
    /\ iters' = iters + 1
    /\ it' = it + 1
    /\ IF it + 1 = Len(line)
       THEN Throw("unexpected end of line")
       ELSE UNCHANGED <<line, begin, s, co, site, value, m_handle, frame, result, tpc, err>>

\* default: break
ParseDefault ==
    /\ LexOnly
    /\ co = "running" /\ it < Len(line) /\ iters < MaxIters
    /\ line[it + 1] \notin ({" ", "\\"} \cup Openers \cup Closers)
    /\ iters' = iters + 1
    /\ UNCHANGED <<line, it, begin, s, co, site, value, m_handle, frame, result, tpc, err>>

\* the coroutine is resumed: the statements after the co_yield it is suspended at
Resume ==
    /\ co' = "running" /\ site' = "none"
    /\ CASE site = "space" -> it' = it + 1 /\ begin' = it + 1     \* begin = ++it; continue
         [] site = "close" -> it' = it /\ begin' = it             \* begin = it; continue
         [] OTHER          -> UNCHANGED <<it, begin>>             \* from initial_suspend

\* tokenize: auto gen = parse(line); gen.begin() resumes the coroutine
TokenizeBegin ==
    /\ LexOnly
    /\ tpc = "start" /\ co = "initial"
    /\ Resume
    /\ tpc' = "begin"
    /\ UNCHANGED <<line, s, value, m_handle, frame, result, err, iters>>

\* token_generator::begin after resume(): a finished coroutine clears m_handle
BeginReturn ==
    /\ LexOnly
    /\ tpc = "begin" /\ co \in {"yielded", "done"}
    /\ m_handle' = (co # "done")
    /\ tpc' = "loop"
    /\ UNCHANGED <<line, it, begin, s, co, site, value, frame, result, err, iters>>

\* iterator_type::operator ==(default_sentinel_t)
AtEnd == ~m_handle \/ co = "done"

\* the body of the range-for: result.push_back(*it), then ++it resumes
LoopBody ==
    /\ LexOnly
    /\ tpc = "loop" /\ ~AtEnd
    /\ result' = Append(result, [type |-> value.type, input |-> string_copy(value.input)])
    /\ Resume
    /\ tpc' = "inc"
    /\ UNCHANGED <<line, s, value, m_handle, frame, err, iters>>

\* iterator_type::operator ++ returns once the coroutine is suspended again
IncReturn ==
    /\ LexOnly
    /\ tpc = "inc" /\ co \in {"yielded", "done"}
    /\ tpc' = "loop"
    /\ UNCHANGED <<line, it, begin, s, co, site, value, m_handle, frame, result, err, iters>>

\* the loop ends: return result; ~token_generator destroys a non-null handle
TokenizeReturn ==
    /\ LexOnly
    /\ tpc = "loop" /\ AtEnd
    /\ frame' = IF m_handle THEN "destroyed" ELSE frame
    /\ tpc' = "returned"
    /\ UNCHANGED <<line, it, begin, s, co, site, value, m_handle, result, err, iters>>

LexNext ==
    \/ TokenizeBegin
    \/ BeginReturn
    \/ LoopBody
    \/ IncReturn
    \/ TokenizeReturn
    \/ ParseReturn
    \/ ParseSpace
    \/ ParseOpen
    \/ ParseClose
    \/ ParseEscape
    \/ ParseDefault

SpecLex == LexInit /\ [][LexNext]_vars

(***************************************************************************)
(* Claims about the tokenizer.                                             *)
(***************************************************************************)
\* the kinds and texts of the tokens tokenize returned
Tokens(res) == [i \in 1..Len(res) |-> <<res[i].type, Text(res[i].input)>>]

\* C5: tokenize terminates on every finite line: every iteration of the scan
\* loop of parse advances the scan position or ends the scan, so a scan that
\* is still running has advanced at least once per iteration.
C5_EveryIterationAdvances == (co = "running") => (iters <= it)

\* C6: tokenize on the line echo"123" returns, in one scan of the line,
\* exactly the two tokens Name(echo) and String("123").
C6_EchoTokens ==
    (line = EchoLine) =>
        /\ iters <= Len(line)
        /\ tpc # "threw"
        /\ (tpc = "returned" =>
               Tokens(result) = << <<"YSH_NAME", <<"e", "c", "h", "o">> >>,
                                   <<"YSH_STRING", <<"\"", "1", "2", "3", "\"">> >> >>)

\* the first closing symbol of a text of plain brackets that does not match
\* the innermost open delimiter (or has none): 0 when there is no such symbol
RECURSIVE BadCloserAt(_, _, _)
BadCloserAt(text, i, open) ==
    IF i > Len(text) THEN 0
    ELSE IF text[i] \in {"(", "[", "{"} THEN BadCloserAt(text, i + 1, Append(open, text[i]))
    ELSE IF text[i] \in Closers
         THEN IF open # <<>> /\ compound[open[Len(open)]] = text[i]
              THEN BadCloserAt(text, i + 1, SubSeq(open, 1, Len(open) - 1))
              ELSE i
    ELSE BadCloserAt(text, i + 1, open)

PlainBrackets(text) == \A i \in 1..Len(text) : text[i] \in {"(", ")", "]", "a", " "}

\* C7: a line with a closing symbol that does not match the open delimiter on
\* top of the bracket stack (or that meets an empty stack) is rejected with an
\* error: tokenize does not return it, and the scan does not go on past it.
C7_MismatchRejected ==
    (PlainBrackets(line) /\ BadCloserAt(line, 1, <<>>) > 0) =>
        /\ tpc # "returned"
        /\ iters <= BadCloserAt(line, 1, <<>>)

\* C8: tokenize on the empty line returns exactly one token, of kind Empty.
C8_EmptyLine ==
    (line = <<>> /\ tpc = "returned") =>
        (Len(result) = 1 /\ result[1].type = "YSH_EMPTY")

(***************************************************************************)
(* The members of token_generator called by a client of its own: begin,    *)
(* the increment of the iterator, next, destroy and the destructor, on the *)
(* generator parse(line) returned. tpc is "start" before the first call,   *)
(* "loop" between calls, "destructed" after the destructor and "undefined" *)
(* after a call with undefined behaviour, which err names. The client     *)
(* calls no member but the destructor once it has called destroy.          *)
(***************************************************************************)
\* m_handle.resume() is defined: the handle is non-null and its coroutine is
\* suspended at a point other than the final one
CanResume == m_handle /\ co \in {"initial", "yielded"}
WhyNot ==
    IF ~m_handle THEN "resume through a null handle"
    ELSE "resume of a finished coroutine"

GenUndefined(msg) ==
    /\ tpc' = "undefined" /\ err' = msg
    /\ UNCHANGED <<line, it, begin, s, co, site, value, m_handle, frame, result, iters>>

\* begin(): if (m_handle) m_handle.resume(); with a null handle the call
\* changes nothing
GenBegin ==
    /\ LexOnly
    /\ tpc \in {"start", "loop"} /\ frame = "alive"
    /\ m_handle
    /\ IF CanResume
       THEN /\ Resume
            /\ tpc' = "begin"
            /\ UNCHANGED <<line, s, value, m_handle, frame, result, err, iters>>
       ELSE GenUndefined(WhyNot)

\* iterator_type::operator ++ on an iterator that is not equal to end()
GenIncrement ==
    /\ LexOnly
    /\ tpc = "loop" /\ frame = "alive" /\ ~AtEnd
    /\ Resume
    /\ tpc' = "inc"
    /\ UNCHANGED <<line, s, value, m_handle, frame, result, err, iters>>

\* next(): this->resume(), with no test of the handle
GenNext ==
    /\ LexOnly
    /\ tpc \in {"start", "loop"} /\ frame = "alive"
    /\ IF CanResume
       THEN /\ Resume
            /\ tpc' = "next"
            /\ UNCHANGED <<line, s, value, m_handle, frame, result, err, iters>>
       ELSE GenUndefined(WhyNot)

\* next() returns m_handle.promise().value once the coroutine is suspended
NextReturn ==
    /\ LexOnly
    /\ tpc = "next" /\ co \in {"yielded", "done"}
    /\ tpc' = "loop"
    /\ result' = Append(result, [type |-> value.type, input |-> string_copy(value.input)])
    /\ UNCHANGED <<line, it, begin, s, co, site, value, m_handle, frame, err, iters>>

\* destroy(): m_handle.destroy(), and m_handle keeps its value
GenDestroy ==
    /\ LexOnly
    /\ tpc \in {"start", "loop"} /\ frame = "alive"
    /\ IF m_handle
       THEN /\ frame' = "destroyed"
            /\ UNCHANGED <<line, it, begin, s, co, site, value, m_handle, result, tpc, err, iters>>
       ELSE GenUndefined("destroy through a null handle")

\* ~token_generator(): if (m_handle) m_handle.destroy()
GenDestructor ==
    /\ LexOnly
    /\ tpc \in {"start", "loop"}
    /\ IF m_handle /\ frame # "alive"
       THEN GenUndefined("frame destroyed twice")
       ELSE /\ frame' = IF m_handle THEN "destroyed" ELSE frame
            /\ tpc' = "destructed"
            /\ UNCHANGED <<line, it, begin, s, co, site, value, m_handle, result, err, iters>>

GenStep ==
    \/ GenBegin
    \/ BeginReturn
    \/ GenIncrement
    \/ IncReturn
    \/ GenNext
    \/ NextReturn
    \/ GenDestroy
    \/ GenDestructor
    \/ ParseReturn
    \/ ParseSpace
    \/ ParseOpen
    \/ ParseClose
    \/ ParseEscape
    \/ ParseDefault

SpecGen == LexInit /\ [][GenStep]_vars

\* C25: over every sequence of calls of begin, the iterator increment, next,
\* destroy and the destructor, the coroutine frame is released exactly once:
\* it is released when the generator is destructed (also when the scan ended
\* without a token), it is not destroyed twice and it is not resumed after
\* it finished.
C25_FrameReleasedOnce ==
    /\ tpc # "undefined"
    /\ (tpc = "destructed") => (frame = "destroyed")

(***************************************************************************)
(* The reorderer: is_operator, the operator tables and shunting_yard.      *)
(***************************************************************************)
\* tokens of at most MaxTokens texts are drawn from TokenAlphabet
MaxTokens == 3

\* std::string_view::npos, as an offset from begin(): size_t(-1)
npos == -1

\* k_operators = "@$%^&*-+=|:<,>.?/"
k_operators == {"@", "$", "%", "^", "&", "*", "-", "+", "=", "|", ":", "<", ",", ">", ".", "?", "/"}

\* ysh::string::find_first_not_of(string const&), as an offset from begin():
\* begin() + base_type::find_first_not_of(str), and the base returns npos
\* when every character is in str
find_first_not_of(str, chars) ==
    LET t == Text(str)
        others == {k \in 1..Len(t) : t[k] \notin chars}
    IN  IF others = {} THEN npos
        ELSE (CHOOSE k \in others : \A j \in others : k <= j) - 1

\* iterator == token.end(). begin() + npos lies outside the buffer (undefined
\* behaviour): what the comparison gives is a property of the build
at_end(offset, str) ==
    IF offset = npos THEN npos_at_end ELSE offset = str.size

\* bool is_operator(input_t token): the parameter is a copy
is_operator(token) ==
    LET copy == string_copy(token)
    IN  at_end(find_first_not_of(copy, k_operators), copy)

g_left_associative ==
    { <<"^">>, <<"*">>, <<"/">>, <<"%">>, <<"+">>, <<"-">>, <<"<">>, <<">">>, <<"=">>,
      <<"!", "=">>, <<"<", "=">>, <<">", "=">>, <<"&">>, <<"|">>, <<",">>, <<";">> }

g_right_associative == { <<"$">>, <<":">>, <<"<", "-">>, <<"-", ">">> }

PrecedenceTable ==
    { <<<<"$">>, 100>>, <<<<":">>, 90>>, <<<<"<", "-">>, 85>>, <<<<"^">>, 80>>,
      <<<<"*">>, 70>>, <<<<"/">>, 70>>, <<<<"%">>, 70>>,
      <<<<"+">>, 60>>, <<<<"-">>, 60>>,
      <<<<"<">>, 50>>, <<<<">">>, 50>>, <<<<"=">>, 50>>, <<<<"!", "=">>, 50>>,
      <<<<"<", "=">>, 50>>, <<<<">", "=">>, 50>>,
      <<<<"&">>, 40>>, <<<<"|">>, 40>>,
      <<<<"<", "<">>, 30>>, <<<<">", ">">>, 30>>,
      <<<<",">>, 20>>, <<<<"-", ">">>, 10>>, <<<<";">>, 0>> }

\* g_precedence[token]: operator[] of the map gives 0 for a key it does not hold
g_precedence(text) ==
    IF \E e \in PrecedenceTable : e[1] = text
    THEN (CHOOSE e \in PrecedenceTable : e[1] = text)[2]
    ELSE 0

Top(st) == st[Len(st)]
Pop(st) == SubSeq(st, 1, Len(st) - 1)

\* the while loop of the operator branch: stacked operators go to the output
RECURSIVE pop_operators(_, _, _)
pop_operators(token, res, st) ==
    IF st # <<>> /\ is_operator(Top(st))
    THEN IF \/ (Text(token) \in g_left_associative
                  /\ g_precedence(Text(token)) <= g_precedence(Text(Top(st))))
            \/ (Text(token) \in g_right_associative
                  /\ g_precedence(Text(token)) < g_precedence(Text(Top(st))))
         THEN pop_operators(token, Append(res, string_copy(Top(st))), Pop(st))
         ELSE [result |-> res, s |-> st]
    ELSE [result |-> res, s |-> st]

\* the loop of the ")" branch as it would be without the test of s.top()
\* against "(": it empties the stack, parentheses included
RECURSIVE drain_to_bottom(_, _)
drain_to_bottom(res, st) ==
    IF st # <<>>
    THEN drain_to_bottom(Append(res, string_copy(Top(st))), Pop(st))
    ELSE [result |-> res, s |-> st]

\* the while loop of the ")" branch: the stack is drained down to a "("
RECURSIVE drain(_, _)
drain(res, st) ==
    IF st # <<>> /\ Text(Top(st)) # <<"(">>
    THEN drain(Append(res, string_copy(Top(st))), Pop(st))
    ELSE [result |-> res, s |-> st]

\* the while loop of the last branch: the operator tokens that follow
\* tokens[i] go to the output before it; i is the index of the last one taken
RECURSIVE take_following(_, _, _)
take_following(toks, i, res) ==
    IF i + 1 <= Len(toks) /\ is_operator(toks[i + 1])
    THEN take_following(toks, i + 1, Append(res, string_copy(toks[i + 1])))
    ELSE [result |-> res, i |-> i]

\* the final while loop: what is left on the stack goes to the output
RECURSIVE flush(_, _)
flush(res, st) ==
    IF st # <<>> THEN flush(Append(res, string_copy(Top(st))), Pop(st)) ELSE res

\* the for loop of shunting_yard from tokens[i] on (i counts from 1). ub is
\* set when s.pop() is called on an empty stack, which is undefined behaviour
RECURSIVE sy_loop(_, _, _, _)
sy_loop(toks, i, res, st) ==
    IF i > Len(toks) THEN [result |-> flush(res, st), ub |-> FALSE]
    ELSE LET token == string_copy(toks[i])
         IN  IF is_operator(token) /\ (Text(token) \in g_left_associative
                                        \/ Text(token) \in g_right_associative)
             THEN LET p == pop_operators(token, res, st)
                  IN  sy_loop(toks, i + 1, p.result, Append(p.s, token))
             ELSE IF Text(token) = <<"(">>
             THEN sy_loop(toks, i + 1, res, Append(st, token))
             ELSE IF Text(token) = <<")">>
             THEN LET p == drain(res, st)
                  IN  IF p.s = <<>>
                      THEN [result |-> p.result, ub |-> TRUE]
                      ELSE sy_loop(toks, i + 1, p.result, Pop(p.s))
             ELSE LET p == take_following(toks, i, res)
                  IN  sy_loop(toks, p.i + 1, Append(p.result, token), st)

shunting_yard(toks) == sy_loop(toks, 1, <<>>, <<>>)

Texts(views) == [i \in 1..Len(views) |-> Text(views[i])]
Views(texts) == [i \in 1..Len(texts) |-> View(texts[i])]

TokenAlphabet ==
    { <<"1">>, <<"s", "i", "n">>, <<"+">>, <<"*">>, <<"(">>, <<")">>, <<"<", "-">>, <<"<", "<">> }

\* 1 + 2 * sin 3
SinInput == << <<"1">>, <<"+">>, <<"2">>, <<"*">>, <<"s", "i", "n">>, <<"3">> >>
\* magic 1 2 3 + 4 * 5
MagicInput == << <<"m", "a", "g", "i", "c">>, <<"1">>, <<"2">>, <<"3">>, <<"+">>, <<"4">>,
                 <<"*">>, <<"5">> >>

\* 1 + 2 + 3
LeftChain == << <<"1">>, <<"+">>, <<"2">>, <<"+">>, <<"3">> >>
\* 1 <- 2 <- 3
RightChain == << <<"1">>, <<"<", "-">>, <<"2">>, <<"<", "-">>, <<"3">> >>

\* ( + 1 ) * ( 2 )
ParenInput == << <<"(">>, <<"+">>, <<"1">>, <<")">>, <<"*">>, <<"(">>, <<"2">>, <<")">> >>

ReorderInputs ==
    TextsUpTo(TokenAlphabet, MaxTokens)
        \cup {SinInput, MagicInput, LeftChain, RightChain, ParenInput}

LexIdle ==
    /\ line = <<>> /\ it = 0 /\ begin = 0 /\ s = <<>>
    /\ co = "initial" /\ site = "none" /\ value = NoValue
    /\ m_handle = FALSE /\ frame = "none"
    /\ result = <<>> /\ tpc = "idle" /\ err = "none" /\ iters = 0

ReorderInit ==
    /\ LexIdle
    /\ npos_at_end \in BOOLEAN
    /\ \E texts \in ReorderInputs : tokens = Views(texts)
    /\ postfix = [result |-> <<>>, ub |-> FALSE]
    /\ rpc = "call"
    /\ OpsIdle /\ EvalIdle /\ TupleIdle

\* a call of shunting_yard with tokens built from literals
Reorder ==
    /\ rpc = "call"
    /\ postfix' = shunting_yard(tokens)
    /\ rpc' = "done"
    /\ UNCHANGED <<lexVars, npos_at_end, tokens, null_deref_traps, opsVars, evalVars, tupleVars>>

ReorderNext == Reorder

SpecReorder == ReorderInit /\ [][ReorderNext]_vars

(***************************************************************************)
(* Claims about the reorderer.                                             *)
(***************************************************************************)
\* C3: shunting_yard maps 1 + 2 * sin 3 to exactly 1 2 3 sin * +.
C3_SinExample ==
    (rpc = "done" /\ Texts(tokens) = SinInput) =>
        /\ ~postfix.ub
        /\ Texts(postfix.result) =
              << <<"1">>, <<"2">>, <<"3">>, <<"s", "i", "n">>, <<"*">>, <<"+">> >>

\* C4: a token followed by a run of further non-operator tokens is emitted
\* after that run: shunting_yard maps magic 1 2 3 + 4 * 5 to exactly
\* 1 2 3 magic 4 + 5 *.
C4_MagicExample ==
    (rpc = "done" /\ Texts(tokens) = MagicInput) =>
        /\ ~postfix.ub
        /\ Texts(postfix.result) =
              << <<"1">>, <<"2">>, <<"3">>, <<"m", "a", "g", "i", "c">>, <<"4">>, <<"+">>,
                 <<"5">>, <<"*">> >>

\* the table of operator tokens of the specification: token, precedence,
\* associativity
ListedOperators ==
    { <<<<"$">>, 100, "right">>, <<<<":">>, 90, "right">>, <<<<"<", "-">>, 85, "right">>,
      <<<<"^">>, 80, "left">>,
      <<<<"*">>, 70, "left">>, <<<<"/">>, 70, "left">>, <<<<"%">>, 70, "left">>,
      <<<<"+">>, 60, "left">>, <<<<"-">>, 60, "left">>,
      <<<<"<">>, 50, "left">>, <<<<">">>, 50, "left">>, <<<<"=">>, 50, "left">>,
      <<<<"!", "=">>, 50, "left">>, <<<<"<", "=">>, 50, "left">>, <<<<">", "=">>, 50, "left">>,
      <<<<"&">>, 40, "left">>, <<<<"|">>, 40, "left">>,
      <<<<"<", "<">>, 30, "left">>, <<<<">", ">">>, 30, "left">>,
      <<<<",">>, 20, "left">>, <<<<"-", ">">>, 10, "right">>, <<<<";">>, 0, "left">> }

\* C15: every listed operator token that shunting_yard is handed has the
\* listed precedence in g_precedence and is in exactly the associativity
\* set of its listed associativity: $ : <- -> right, every other one,
\* << and >> included, left.
C15_TableMatches ==
    (rpc = "done") =>
        \A e \in ListedOperators :
            (\E i \in 1..Len(tokens) : Text(tokens[i]) = e[1]) =>
                /\ g_precedence(e[1]) = e[2]
                /\ (e[1] \in g_left_associative) <=> (e[3] = "left")
                /\ (e[1] \in g_right_associative) <=> (e[3] = "right")

\* C16: a left-associative operator pops stacked operators of greater or
\* equal precedence and a right-associative one only those of strictly
\* greater precedence, so 1 + 2 + 3 becomes 1 2 + 3 + and 1 <- 2 <- 3
\* becomes 1 2 3 <- <-.
C16_AssociativityPopping ==
    /\ (rpc = "done" /\ Texts(tokens) = LeftChain) =>
          /\ ~postfix.ub
          /\ Texts(postfix.result) = << <<"1">>, <<"2">>, <<"+">>, <<"3">>, <<"+">> >>
    /\ (rpc = "done" /\ Texts(tokens) = RightChain) =>
          /\ ~postfix.ub
          /\ Texts(postfix.result) =
                << <<"1">>, <<"2">>, <<"3">>, <<"<", "-">>, <<"<", "-">> >>

\* the parentheses of texts[k..] are balanced, depth of them being open
RECURSIVE BalancedFrom(_, _, _)
BalancedFrom(texts, k, depth) ==
    IF k > Len(texts) THEN depth = 0
    ELSE IF texts[k] = <<"(">> THEN BalancedFrom(texts, k + 1, depth + 1)
    ELSE IF texts[k] = <<")">> THEN depth > 0 /\ BalancedFrom(texts, k + 1, depth - 1)
    ELSE BalancedFrom(texts, k + 1, depth)
Balanced(texts) == BalancedFrom(texts, 1, 0)
Occurrences(texts, text) == Cardinality({i \in 1..Len(texts) : texts[i] = text})
Parentheses == { <<"(">>, <<")">> }

\* C29: for tokens with balanced parentheses the output of shunting_yard
\* holds every token that is not a parenthesis as often as the input does,
\* holds no ( and no ), and the stack is never popped while it is empty.
C29_BalancedPermutation ==
    (rpc = "done" /\ Balanced(Texts(tokens))) =>
        /\ ~postfix.ub
        /\ Len(postfix.result) = Len(tokens) - Occurrences(Texts(tokens), <<"(">>)
                                             - Occurrences(Texts(tokens), <<")">>)
        /\ \A i \in 1..Len(postfix.result) : Text(postfix.result[i]) \notin Parentheses
        /\ \A i \in 1..Len(tokens) :
              Text(tokens[i]) \notin Parentheses =>
                  Occurrences(Texts(postfix.result), Text(tokens[i]))
                      = Occurrences(Texts(tokens), Text(tokens[i]))

\* ( + 1 ) * ( 2 ) has been reordered where is_operator recognises + and *:
\* + waited on the stack above ( and was drained by the )
C29_Reached ==
    /\ rpc = "done" /\ npos_at_end /\ Texts(tokens) = ParenInput
    /\ Balanced(Texts(tokens))
    /\ Texts(postfix.result) = << <<"1">>, <<"+">>, <<"2">>, <<"*">> >>

(***************************************************************************)
(* The operator engine (entity.cpp).  An entity is a record                *)
(*   [m_type |-> tag, m_value |-> Payload(alt, v)]                         *)
(* where alt names the alternative the variant holds.  Payloads: an        *)
(* int_t is an integer, a real_t a fraction [n, d], a str_t a sequence of  *)
(* characters, a list_t and a tuple_t a sequence of entities (a tuple      *)
(* head first), a func_t a name, an error_t its message.  A call that      *)
(* gives no entity gives Raise(how, what): how is "throw" (an exception),  *)
(* "abort" (the process ends) or "undefined" (undefined behaviour).        *)
(* Operands are matched to the lambda whose parameter types name their     *)
(* alternatives; the (auto&&, auto&&) lambda takes the pairs no other      *)
(* lambda names.  Operands are separate objects.                           *)
(***************************************************************************)
\* lists and tuples of at most MaxListLen elements are drawn as operands
MaxListLen == 2

Raise(how, what) == [m_type |-> "NONE", m_value |-> Payload(how, what)]
IsValue(e) == e.m_type # "NONE"

\* the tag the constructor pairs with each alternative
tag_of(alt) ==
    CASE alt = "int_t" -> "INT" [] alt = "real_t" -> "REAL" [] alt = "str_t" -> "STR"
      [] alt = "list_t" -> "LIST" [] alt = "tuple_t" -> "TUPLE" [] alt = "func_t" -> "FUNC"
      [] alt = "error_t" -> "ERROR"

\* entity::name(of(arg))
name_of(alt) ==
    CASE alt = "int_t" -> "Int" [] alt = "real_t" -> "Real" [] alt = "str_t" -> "Str"
      [] alt = "list_t" -> "List" [] alt = "tuple_t" -> "Tuple" [] alt = "func_t" -> "Func"
      [] alt = "error_t" -> "Error"

\* an entity that holds alternative alt with payload v
Holding(alt, v) == [m_type |-> tag_of(alt), m_value |-> Payload(alt, v)]

\* entity::entity(T&& value): m_value is set to an empty unique_ptr and then
\* assigned through. Whether that store traps is a property of the build.
entity(alt, v) ==
    IF null_deref_traps THEN Raise("abort", "store through null m_value")
    ELSE Holding(alt, v)

Reverse(sq) == [i \in 1..Len(sq) |-> sq[Len(sq) + 1 - i]]

\* entity::entity(entity const&): the held value is copied; copying a
\* tuple_t is tuple_t::operator = on an empty tuple, which pushes the source
\* elements head first, and push copies its element twice
RECURSIVE entity_copy(_)
entity_copy(e) ==
    CASE e.m_value.alt = "list_t" ->
            [e EXCEPT !.m_value.items = [i \in 1..Len(@) |-> entity_copy(@[i])]]
      [] e.m_value.alt = "tuple_t" ->
            [e EXCEPT !.m_value.items =
                Reverse([i \in 1..Len(@) |-> entity_copy(entity_copy(@[i]))])]
      [] OTHER -> e

\* tuple_t::tuple_t(tuple_t const&), on payloads
tuple_copy(t) == Reverse([i \in 1..Len(t) |-> entity_copy(entity_copy(t[i]))])

\* tuple_t::concat: the elements of this go on a stack (one copy each),
\* result starts as a copy of other, and the stack is pushed onto it
tuple_concat(this, other) ==
    [i \in 1..Len(this) |-> entity_copy(entity_copy(this[i]))] \o tuple_copy(other)

\* the first element of rs that is no entity, or the list entity of rs:
\* a loop that builds result element by element and ends in entity(result)
FirstBad(rs) == CHOOSE i \in 1..Len(rs) : ~IsValue(rs[i]) /\ \A j \in 1..(i - 1) : IsValue(rs[j])
Collect(rs) ==
    IF \E i \in 1..Len(rs) : ~IsValue(rs[i]) THEN rs[FirstBad(rs)]
    ELSE entity("list_t", [i \in 1..Len(rs) |-> entity_copy(rs[i])])

\* operation_error(type, { arg_type }, op): the text of the message
operation_error(type, arg_type, opname) ==
    entity("error_t", "Operation Error: " \o "\n\twith primary object's type: " \o type
                       \o "\n\tOperator: " \o opname \o "\n\tArguments: " \o arg_type)

(* long double values as fractions [n, d], d > 0 in lowest terms; d = 0 is *)
(* an infinity                                                             *)
abs(a) == IF a < 0 THEN -a ELSE a
RECURSIVE gcd(_, _)
gcd(a, b) == IF b = 0 THEN a ELSE gcd(b, a % b)
Frac(n, d) ==
    IF d = 0 THEN [n |-> IF n < 0 THEN -1 ELSE 1, d |-> 0]
    ELSE LET g == gcd(abs(n), abs(d))
             sg == IF d < 0 THEN -1 ELSE 1
         IN  [n |-> sg * (n \div g), d |-> abs(d) \div g]
\* real_t(int_t)
to_real(alt, v) == IF alt = "int_t" THEN Frac(v, 1) ELSE v
frac_add(a, b) == Frac(a.n * b.d + b.n * a.d, a.d * b.d)
frac_sub(a, b) == Frac(a.n * b.d - b.n * a.d, a.d * b.d)
frac_mul(a, b) == Frac(a.n * b.n, a.d * b.d)
frac_div(a, b) == Frac(a.n * b.d, a.d * b.n)
frac_less(a, b) == a.n * b.d < b.n * a.d
RECURSIVE int_pow(_, _)
int_pow(a, k) == IF k = 0 THEN 1 ELSE a * int_pow(a, k - 1)
\* std::pow for a whole exponent
frac_pow(a, b) ==
    CASE b.d = 1 /\ b.n >= 0 -> Frac(int_pow(a.n, b.n), int_pow(a.d, b.n))
      [] b.d = 1 /\ b.n < 0 -> Frac(int_pow(a.d, -b.n), int_pow(a.n, -b.n))

(* long long arithmetic; the operands drawn are far from the 64 bit limits *)
int_div(a, b) == LET q == abs(a) \div abs(b) IN IF (a < 0) = (b < 0) THEN q ELSE -q
int_rem(a, b) == a - b * int_div(a, b)
RECURSIVE int_and(_, _)
int_and(a, b) ==
    IF a = 0 \/ b = 0 THEN 0
    ELSE IF a = -1 THEN b
    ELSE IF b = -1 THEN a
    ELSE 2 * int_and(a \div 2, b \div 2) + (a % 2) * (b % 2)
int_or(a, b) == a + b - int_and(a, b)

IsArithmetic(alt) == alt \in {"int_t", "real_t"}

\* the operator named opname applied to two operands
RECURSIVE apply(_, _, _)

\* for (ent : arg_2) result.emplace_back(entity(arg_1) op ent); entity(result)
broadcast_left(opname, a1, v1, list) ==
    Collect([i \in 1..Len(list) |-> apply(opname, entity(a1, v1), list[i])])
\* for (ent : arg_1) result.emplace_back(ent op entity(arg_2)); entity(result)
broadcast_right(opname, list, a2, v2) ==
    Collect([i \in 1..Len(list) |-> apply(opname, list[i], entity(a2, v2))])
\* the (list_t, list_t) lambda: size check, then element by element
elementwise(opname, l1, l2, mismatch) ==
    IF Len(l1) # Len(l2) THEN entity("error_t", mismatch)
    ELSE Collect([i \in 1..Len(l1) |-> apply(opname, l1[i], l2[i])])

operator_plus(l, r) ==
    IF ~IsValue(l) THEN l ELSE IF ~IsValue(r) THEN r ELSE
    LET a1 == l.m_value.alt  v1 == ValueOf(l.m_value)
        a2 == r.m_value.alt  v2 == ValueOf(r.m_value)
    IN  CASE a1 = "list_t" /\ a2 = "list_t" ->
                elementwise("+", v1, v2, "List size mismatch")
          [] a1 = "tuple_t" /\ a2 = "tuple_t" -> entity("tuple_t", tuple_concat(v1, v2))
          [] IsArithmetic(a1) /\ IsArithmetic(a2) ->
                IF a1 = "int_t" /\ a2 = "int_t" THEN entity("int_t", v1 + v2)
                ELSE entity("real_t", frac_add(to_real(a1, v1), to_real(a2, v2)))
          [] a1 = "str_t" /\ a2 = "str_t" -> entity("str_t", v1 \o v2)
          [] IsArithmetic(a1) /\ a2 = "list_t" -> broadcast_left("+", a1, v1, v2)
          [] a1 = "list_t" /\ IsArithmetic(a2) -> broadcast_right("+", v1, a2, v2)
          [] OTHER -> operation_error(name_of(a1), name_of(a2), "(+)")

operator_minus(l, r) ==
    IF ~IsValue(l) THEN l ELSE IF ~IsValue(r) THEN r ELSE
    LET a1 == l.m_value.alt  v1 == ValueOf(l.m_value)
        a2 == r.m_value.alt  v2 == ValueOf(r.m_value)
    IN  CASE a1 = "list_t" /\ a2 = "list_t" ->
                elementwise("-", v1, v2, "List size mismatch.")
          [] IsArithmetic(a1) /\ IsArithmetic(a2) ->
                IF a1 = "int_t" /\ a2 = "int_t" THEN entity("int_t", v1 - v2)
                ELSE entity("real_t", frac_sub(to_real(a1, v1), to_real(a2, v2)))
          [] IsArithmetic(a1) /\ a2 = "list_t" -> broadcast_left("-", a1, v1, v2)
          [] a1 = "list_t" /\ IsArithmetic(a2) -> broadcast_right("-", v1, a2, v2)
          [] OTHER -> operation_error(name_of(a1), name_of(a2), "(-)")

\* while (count-- > 0) result += str
RECURSIVE repeat(_, _)
repeat(str, count) == IF count > 0 THEN str \o repeat(str, count - 1) ELSE <<>>

operator_times(l, r) ==
    IF ~IsValue(l) THEN l ELSE IF ~IsValue(r) THEN r ELSE
    LET a1 == l.m_value.alt  v1 == ValueOf(l.m_value)
        a2 == r.m_value.alt  v2 == ValueOf(r.m_value)
    IN  CASE a1 = "int_t" /\ a2 = "str_t" -> entity("str_t", repeat(v2, v1))
          [] a1 = "str_t" /\ a2 = "int_t" -> entity("str_t", repeat(v1, v2))
          [] a1 = "list_t" /\ a2 = "list_t" ->
                elementwise("*", v1, v2, "List size mismatch.")
          [] IsArithmetic(a1) /\ IsArithmetic(a2) ->
                IF a1 = "int_t" /\ a2 = "int_t" THEN entity("int_t", v1 * v2)
                ELSE entity("real_t", frac_mul(to_real(a1, v1), to_real(a2, v2)))
          [] IsArithmetic(a1) /\ a2 = "list_t" -> broadcast_left("*", a1, v1, v2)
          [] a1 = "list_t" /\ IsArithmetic(a2) -> broadcast_right("*", v1, a2, v2)
          [] OTHER -> operation_error(name_of(a1), name_of(a2), "(*)")

\* arg_2 == 0 for an int_t or a real_t
IsZero(alt, v) == IF alt = "int_t" THEN v = 0 ELSE v.n = 0 /\ v.d # 0

operator_divide(l, r) ==
    IF ~IsValue(l) THEN l ELSE IF ~IsValue(r) THEN r ELSE
    LET a1 == l.m_value.alt  v1 == ValueOf(l.m_value)
        a2 == r.m_value.alt  v2 == ValueOf(r.m_value)
    IN  CASE a1 = "list_t" /\ a2 = "list_t" ->
                elementwise("/", v1, v2, "List size mismatch.")
          [] IsArithmetic(a1) /\ IsArithmetic(a2) ->
                IF IsZero(a2, v2) THEN entity("error_t", "Division by zero.")
                ELSE IF a1 = "int_t" /\ a2 = "int_t" THEN entity("int_t", int_div(v1, v2))
                ELSE entity("real_t", frac_div(to_real(a1, v1), to_real(a2, v2)))
          [] IsArithmetic(a1) /\ a2 = "list_t" -> broadcast_left("/", a1, v1, v2)
          [] a1 = "list_t" /\ IsArithmetic(a2) -> broadcast_right("/", v1, a2, v2)
          [] OTHER -> operation_error(name_of(a1), name_of(a2), "(/)")

operator_modulo(l, r) ==
    IF ~IsValue(l) THEN l ELSE IF ~IsValue(r) THEN r ELSE
    LET a1 == l.m_value.alt  v1 == ValueOf(l.m_value)
        a2 == r.m_value.alt  v2 == ValueOf(r.m_value)
    IN  CASE a1 = "int_t" /\ a2 = "int_t" ->
                IF v2 = 0 THEN entity("error_t", "Division by zero.")
                ELSE entity("int_t", int_rem(v1, v2))
          [] a1 = "int_t" /\ a2 = "list_t" -> broadcast_left("%", a1, v1, v2)
          [] a1 = "list_t" /\ a2 = "int_t" -> broadcast_right("%", v1, a2, v2)
          [] a1 = "list_t" /\ a2 = "list_t" ->
                elementwise("%", v1, v2, "List size mismatch.")
          [] OTHER -> operation_error(name_of(a1), name_of(a2), "(%)")

\* from_chars on the characters of a str_t: the leading digits, or nothing
DigitValue == [c \in {"0", "1", "2", "3", "4", "5", "6", "7", "8", "9"} |->
                 CASE c = "0" -> 0 [] c = "1" -> 1 [] c = "2" -> 2 [] c = "3" -> 3 [] c = "4" -> 4
                   [] c = "5" -> 5 [] c = "6" -> 6 [] c = "7" -> 7 [] c = "8" -> 8 [] c = "9" -> 9]
RECURSIVE digits_value(_, _, _)
digits_value(text, k, acc) ==
    IF k <= Len(text) /\ text[k] \in DOMAIN DigitValue
    THEN digits_value(text, k + 1, 10 * acc + DigitValue[text[k]])
    ELSE acc
HasDigits(text) == Len(text) > 0 /\ text[1] \in DOMAIN DigitValue

\* entity::operator real_t: a str_t is parsed by from_chars, which leaves
\* result unset when the text does not start with a number
to_real_t(e) ==
    CASE e.m_value.alt = "int_t" -> Frac(ValueOf(e.m_value), 1)
      [] e.m_value.alt = "real_t" -> ValueOf(e.m_value)
      [] e.m_value.alt = "str_t" ->
            IF HasDigits(ValueOf(e.m_value)) THEN Frac(digits_value(ValueOf(e.m_value), 1, 0), 1)
            ELSE Raise("undefined", "read of an unset real_t")
      [] OTHER -> Raise("throw", "Invalid operation.")
IsRaised(x) == "m_type" \in DOMAIN x

\* result.emplace_back(std::pow(real_t(arg_1[i]), real_t(arg_2[i])))
pow_element(e1, e2) ==
    LET b == to_real_t(e1)
        x == to_real_t(e2)
    IN  IF IsRaised(b) THEN b ELSE IF IsRaised(x) THEN x
        ELSE entity("real_t", frac_pow(b, x))

operator_power(l, r) ==
    IF ~IsValue(l) THEN l ELSE IF ~IsValue(r) THEN r ELSE
    LET a1 == l.m_value.alt  v1 == ValueOf(l.m_value)
        a2 == r.m_value.alt  v2 == ValueOf(r.m_value)
    IN  CASE a1 = "list_t" /\ a2 = "list_t" ->
                IF Len(v1) # Len(v2) THEN entity("error_t", "List size mismatch.")
                ELSE Collect([i \in 1..Len(v1) |-> pow_element(v1[i], v2[i])])
          [] IsArithmetic(a1) /\ IsArithmetic(a2) ->
                entity("real_t", frac_pow(to_real(a1, v1), to_real(a2, v2)))
          [] IsArithmetic(a1) /\ a2 = "list_t" -> broadcast_left("^", a1, v1, v2)
          [] a1 = "list_t" /\ IsArithmetic(a2) -> broadcast_right("^", v1, a2, v2)
          [] OTHER -> operation_error(name_of(a1), name_of(a2), "(^)")

operator_bitand(l, r) ==
    IF ~IsValue(l) THEN l ELSE IF ~IsValue(r) THEN r ELSE
    LET a1 == l.m_value.alt  v1 == ValueOf(l.m_value)
        a2 == r.m_value.alt  v2 == ValueOf(r.m_value)
    IN  CASE a1 = "int_t" /\ a2 = "int_t" -> entity("int_t", int_and(v1, v2))
          [] a1 = "int_t" /\ a2 = "list_t" -> broadcast_left("&", a1, v1, v2)
          [] a1 = "list_t" /\ a2 = "int_t" -> broadcast_right("&", v1, a2, v2)
          [] a1 = "list_t" /\ a2 = "list_t" -> elementwise("&", v1, v2, "List size mismatch.")
          [] OTHER -> operation_error(name_of(a1), name_of(a2), "(&)")

operator_bitor(l, r) ==
    IF ~IsValue(l) THEN l ELSE IF ~IsValue(r) THEN r ELSE
    LET a1 == l.m_value.alt  v1 == ValueOf(l.m_value)
        a2 == r.m_value.alt  v2 == ValueOf(r.m_value)
    IN  CASE a1 = "int_t" /\ a2 = "int_t" -> entity("int_t", int_or(v1, v2))
          [] a1 = "int_t" /\ a2 = "list_t" -> broadcast_left("|", a1, v1, v2)
          [] a1 = "list_t" /\ a2 = "int_t" -> broadcast_right("|", v1, a2, v2)
          [] a1 = "list_t" /\ a2 = "list_t" -> elementwise("|", v1, v2, "List size mismatch.")
          [] OTHER -> operation_error(name_of(a1), name_of(a2), "(|)")

\* a shift by a negative count or by 64 and more is undefined
operator_shl(l, r) ==
    IF ~IsValue(l) THEN l ELSE IF ~IsValue(r) THEN r ELSE
    LET a1 == l.m_value.alt  v1 == ValueOf(l.m_value)
        a2 == r.m_value.alt  v2 == ValueOf(r.m_value)
    IN  CASE a1 = "int_t" /\ a2 = "int_t" -> IF v2 < 0 \/ v2 >= 64 THEN Raise("undefined", "shift count")
                ELSE entity("int_t", v1 * int_pow(2, v2))
          [] a1 = "int_t" /\ a2 = "list_t" -> broadcast_left("<<", a1, v1, v2)
          [] a1 = "list_t" /\ a2 = "int_t" -> broadcast_right("<<", v1, a2, v2)
          [] a1 = "list_t" /\ a2 = "list_t" -> elementwise("<<", v1, v2, "List size mismatch.")
          [] OTHER -> operation_error(name_of(a1), name_of(a2), "(<<)")

operator_shr(l, r) ==
    IF ~IsValue(l) THEN l ELSE IF ~IsValue(r) THEN r ELSE
    LET a1 == l.m_value.alt  v1 == ValueOf(l.m_value)
        a2 == r.m_value.alt  v2 == ValueOf(r.m_value)
    IN  CASE a1 = "int_t" /\ a2 = "int_t" -> IF v2 < 0 \/ v2 >= 64 THEN Raise("undefined", "shift count")
                ELSE entity("int_t", v1 \div int_pow(2, v2))
          [] a1 = "int_t" /\ a2 = "list_t" -> broadcast_left(">>", a1, v1, v2)
          [] a1 = "list_t" /\ a2 = "int_t" -> broadcast_right(">>", v1, a2, v2)
          [] a1 = "list_t" /\ a2 = "list_t" -> elementwise(">>", v1, v2, "List size mismatch.")
          [] OTHER -> operation_error(name_of(a1), name_of(a2), "(>>)")

\* entity(arg_1 && arg_2), entity(arg_1 || arg_2): a bool is integral
truth(alt, v) == ~IsZero(alt, v)
bool_entity(b) == entity("int_t", IF b THEN 1 ELSE 0)

operator_and(l, r) ==
    IF ~IsValue(l) THEN l ELSE IF ~IsValue(r) THEN r ELSE
    LET a1 == l.m_value.alt  v1 == ValueOf(l.m_value)
        a2 == r.m_value.alt  v2 == ValueOf(r.m_value)
    IN  CASE a1 = "list_t" /\ a2 = "list_t" ->
                \* result[i] = ... on a result that has no elements
                IF Len(v1) # Len(v2) THEN entity("error_t", "List size mismatch.")
                ELSE IF Len(v1) > 0 THEN Raise("undefined", "write past the end of result")
                ELSE entity("list_t", <<>>)
          [] IsArithmetic(a1) /\ IsArithmetic(a2) -> bool_entity(truth(a1, v1) /\ truth(a2, v2))
          [] IsArithmetic(a1) /\ a2 = "list_t" -> broadcast_left("&&", a1, v1, v2)
          [] a1 = "list_t" /\ IsArithmetic(a2) -> broadcast_right("&&", v1, a2, v2)
          [] OTHER -> operation_error(name_of(a1), name_of(a2), "(&&)")

operator_or(l, r) ==
    IF ~IsValue(l) THEN l ELSE IF ~IsValue(r) THEN r ELSE
    LET a1 == l.m_value.alt  v1 == ValueOf(l.m_value)
        a2 == r.m_value.alt  v2 == ValueOf(r.m_value)
    IN  CASE a1 = "list_t" /\ a2 = "list_t" ->
                elementwise("||", v1, v2, "List size mismatch.")
          [] IsArithmetic(a1) /\ IsArithmetic(a2) -> bool_entity(truth(a1, v1) \/ truth(a2, v2))
          [] IsArithmetic(a1) /\ a2 = "list_t" -> broadcast_left("||", a1, v1, v2)
          [] a1 = "list_t" /\ IsArithmetic(a2) -> broadcast_right("||", v1, a2, v2)
          [] OTHER -> operation_error(name_of(a1), name_of(a2), "(||)")

\* a std::partial_ordering, returned where the source returns one
Ordering(o) == [m_type |-> "ORDERING", m_value |-> Payload("partial_ordering", o)]

\* the characters of the model's str_t values in their char order
CharCode == [c \in {"1", "2", "a", "b"} |->
               CASE c = "1" -> 49 [] c = "2" -> 50 [] c = "a" -> 97 [] c = "b" -> 98]
RECURSIVE str_compare(_, _, _)
str_compare(s1, s2, k) ==
    IF k > Len(s1) /\ k > Len(s2) THEN "equivalent"
    ELSE IF k > Len(s1) THEN "less"
    ELSE IF k > Len(s2) THEN "greater"
    ELSE IF CharCode[s1[k]] < CharCode[s2[k]] THEN "less"
    ELSE IF CharCode[s1[k]] > CharCode[s2[k]] THEN "greater"
    ELSE str_compare(s1, s2, k + 1)

RECURSIVE operator_spaceship(_, _)
\* operator <=>(tuple_t const&, tuple_t const&) noexcept from element k on:
\* an exception of an element comparison ends the process
RECURSIVE tuple_spaceship(_, _, _)
tuple_spaceship(t1, t2, k) ==
    IF k <= Len(t1) /\ k <= Len(t2)
    THEN LET cmp == operator_spaceship(t1[k], t2[k])
         IN  IF cmp.m_type = "NONE"
             THEN IF cmp.m_value.alt = "throw" THEN Raise("abort", "std::terminate") ELSE cmp
             ELSE IF cmp.m_type # "ORDERING" THEN Raise("undefined", "list_t as an ordering")
             ELSE IF ValueOf(cmp.m_value) # "equivalent" THEN cmp
             ELSE tuple_spaceship(t1, t2, k + 1)
    ELSE IF k > Len(t1) /\ k > Len(t2) THEN Ordering("equivalent")
    ELSE IF k > Len(t1) THEN Ordering("less")
    ELSE Ordering("greater")

\* result.emplace_back(arg_1[i] <=> arg_2[i]): an entity built from a
\* std::partial_ordering falls to the last branch of the constructor
ordering_entity(cmp) ==
    IF cmp.m_type = "NONE" THEN cmp ELSE entity("error_t", "Unsupported type")

\* std::partial_ordering operator <=>(entity const&, entity const&). The
\* (list_t, list_t) lambda has no size check, reads arg_2[i] for every i
\* below arg_1.size(), and returns the list_t it has built
operator_spaceship(l, r) ==
    IF ~IsValue(l) THEN l ELSE IF ~IsValue(r) THEN r ELSE
    LET a1 == l.m_value.alt  v1 == ValueOf(l.m_value)
        a2 == r.m_value.alt  v2 == ValueOf(r.m_value)
    IN  CASE a1 = "list_t" /\ a2 = "list_t" ->
                IF Len(v1) > Len(v2) THEN Raise("undefined", "read past the end of arg_2")
                ELSE LET rs == [i \in 1..Len(v1) |-> ordering_entity(operator_spaceship(v1[i], v2[i]))]
                     IN  IF \E i \in 1..Len(rs) : ~IsValue(rs[i]) THEN rs[FirstBad(rs)]
                         ELSE [m_type |-> "RAW", m_value |-> Payload("list_t", rs)]
          [] a1 = "func_t" /\ a2 = "func_t" -> Ordering("unordered")
          [] a1 = "error_t" /\ a2 = "error_t" -> Ordering("unordered")
          [] a1 = "int_t" /\ a2 = "int_t" ->
                Ordering(IF v1 < v2 THEN "less" ELSE IF v1 > v2 THEN "greater" ELSE "equivalent")
          [] a1 = "real_t" /\ a2 = "real_t" ->
                Ordering(IF frac_less(v1, v2) THEN "less"
                         ELSE IF frac_less(v2, v1) THEN "greater" ELSE "equivalent")
          [] a1 = "str_t" /\ a2 = "str_t" -> Ordering(str_compare(v1, v2, 1))
          [] a1 = "tuple_t" /\ a2 = "tuple_t" -> tuple_spaceship(v1, v2, 1)
          [] OTHER -> Raise("throw", "Type mismatch.")

\* the (list_t, list_t) branch of operator_compare from element k on: the
\* first element comparison that is not equivalent, or the comparison of the
\* sizes, is handed to the entity constructor
RECURSIVE compare_lists(_, _, _)
compare_lists(l1, l2, k) ==
    IF k <= Len(l1) /\ k <= Len(l2)
    THEN LET cmp == operator_spaceship(l1[k], l2[k])
         IN  IF cmp.m_type = "NONE" THEN cmp
             ELSE IF cmp.m_type # "ORDERING" THEN Raise("undefined", "list_t as an ordering")
             ELSE IF ValueOf(cmp.m_value) # "equivalent" THEN ordering_entity(cmp)
             ELSE compare_lists(l1, l2, k + 1)
    ELSE ordering_entity(Ordering("the ordering of the sizes"))

\* operator_compare: the branches of its one (auto&&, auto&&) lambda
operator_compare(l, r) ==
    IF ~IsValue(l) THEN l ELSE IF ~IsValue(r) THEN r ELSE
    LET a1 == l.m_value.alt  v1 == ValueOf(l.m_value)
        a2 == r.m_value.alt  v2 == ValueOf(r.m_value)
    IN  CASE a1 = "func_t" \/ a2 = "func_t" -> operation_error(name_of(a1), name_of(a2), "(<=>)")
          [] a1 = "error_t" \/ a2 = "error_t" -> operation_error(name_of(a1), name_of(a2), "(<=>)")
          [] a1 = "list_t" /\ a2 = "list_t" -> compare_lists(v1, v2, 1)
          [] a1 = a2 -> ordering_entity(operator_spaceship(l, r))
          [] OTHER -> operation_error(name_of(a1), name_of(a2), "(<=>)")

\* operator_concat: for two lists result starts as a copy of arg_2 and
\* arg_1 is inserted at its end
operator_concat(l, r) ==
    IF ~IsValue(l) THEN l ELSE IF ~IsValue(r) THEN r ELSE
    LET a1 == l.m_value.alt  v1 == ValueOf(l.m_value)
        a2 == r.m_value.alt  v2 == ValueOf(r.m_value)
    IN  CASE a1 = "str_t" /\ a2 = "str_t" -> entity("str_t", v1 \o v2)
          [] a1 = "list_t" /\ a2 = "list_t" ->
                Collect([i \in 1..Len(v2) |-> entity_copy(v2[i])]
                          \o [i \in 1..Len(v1) |-> entity_copy(v1[i])])
          [] a1 = "tuple_t" /\ a2 = "tuple_t" -> entity("tuple_t", tuple_concat(v1, v2))
          [] OTHER -> operation_error(name_of(a1), name_of(a2), "(++)")

apply(opname, l, r) ==
    CASE opname = "+" -> operator_plus(l, r)
      [] opname = "-" -> operator_minus(l, r)
      [] opname = "*" -> operator_times(l, r)
      [] opname = "/" -> operator_divide(l, r)
      [] opname = "%" -> operator_modulo(l, r)
      [] opname = "^" -> operator_power(l, r)
      [] opname = "&" -> operator_bitand(l, r)
      [] opname = "|" -> operator_bitor(l, r)
      [] opname = "<<" -> operator_shl(l, r)
      [] opname = ">>" -> operator_shr(l, r)
      [] opname = "&&" -> operator_and(l, r)
      [] opname = "||" -> operator_or(l, r)

\* operator_apply: the only func_t the engine builds (operator_abstract)
\* returns entity(0)
operator_apply(l, r) ==
    IF ~IsValue(l) THEN l ELSE IF ~IsValue(r) THEN r ELSE
    IF l.m_value.alt = "func_t" THEN entity("int_t", 0)
    ELSE operation_error(name_of(l.m_value.alt), name_of(r.m_value.alt), "($)")

\* entity::operator =(entity const&): only the tag is taken over
entity_assign(this, other) == [this EXCEPT !.m_type = other.m_type]

\* entity(arg) for an lvalue arg: a tuple_t or a list_t is copied into the
\* new entity, and the copy of a tuple_t is tuple_t::operator =
entity_from_lvalue(alt, v) ==
    entity(alt, CASE alt = "tuple_t" -> tuple_copy(v)
                  [] alt = "list_t" -> [i \in 1..Len(v) |-> entity_copy(v[i])]
                  [] OTHER -> v)

\* operator_abstract: std::get<str_t> on both operands, which throws
\* std::bad_variant_access for any other alternative
operator_abstract(l, r) ==
    IF ~IsValue(l) THEN l ELSE IF ~IsValue(r) THEN r ELSE
    IF l.m_value.alt # "str_t" \/ r.m_value.alt # "str_t"
    THEN Raise("throw", "std::bad_variant_access")
    ELSE entity("func_t", "[key, value](entity arg)")

\* operator_abstract moves the str_t out of an operand into the closure
moved_from(e) == [e EXCEPT !.m_value.text = <<>>]

\* operator_cons: for a list_t arg_2 result is a copy of arg_2 and arg_1 is
\* emplaced at its back
operator_cons(l, r) ==
    IF ~IsValue(l) THEN l ELSE IF ~IsValue(r) THEN r ELSE
    LET a1 == l.m_value.alt  v1 == ValueOf(l.m_value)
        a2 == r.m_value.alt  v2 == ValueOf(r.m_value)
    IN  IF a2 = "list_t"
        THEN Collect([i \in 1..Len(v2) |-> entity_copy(v2[i])] \o <<entity_from_lvalue(a1, v1)>>)
        ELSE operation_error(name_of(a1), name_of(a2), "(:)")

\* operator_zip: result is arg_2 copied by tuple_t::operator =, or one
\* emplaced arg_2; arg_1 is emplaced in front; entity(result) copies result
operator_zip(l, r) ==
    IF ~IsValue(l) THEN l ELSE IF ~IsValue(r) THEN r ELSE
    LET a1 == l.m_value.alt  v1 == ValueOf(l.m_value)
        a2 == r.m_value.alt  v2 == ValueOf(r.m_value)
        second == entity_from_lvalue(a2, v2)
        first == entity_from_lvalue(a1, v1)
    IN  IF a2 # "tuple_t" /\ ~IsValue(second) THEN second
        ELSE IF ~IsValue(first) THEN first
        ELSE LET start == IF a2 = "tuple_t" THEN tuple_copy(v2) ELSE <<entity_copy(second)>>
             IN  entity("tuple_t", tuple_copy(<<entity_copy(first)>> \o start))

(* The operands drawn for a call *)
IntV(v) == Holding("int_t", v)
RealV(n, d) == Holding("real_t", Frac(n, d))
StrV(text) == Holding("str_t", text)
ListV(es) == Holding("list_t", es)
TupleV(es) == Holding("tuple_t", es)
FuncV(name) == Holding("func_t", name)
ErrorV(msg) == Holding("error_t", msg)

Scalars ==
    {IntV(-1), IntV(0), IntV(2), IntV(5), RealV(0, 1), RealV(2, 1), StrV(<<"a">>), StrV(<<"1", "2">>),
     FuncV("f"), ErrorV("e")}
Elements == {IntV(0), IntV(2), StrV(<<"a">>)}
Operands ==
    Scalars \cup {ListV(es) : es \in TextsUpTo(Elements, MaxListLen)}
            \cup {TupleV(es) : es \in TextsUpTo({IntV(1), IntV(2)}, MaxListLen)}
            \cup {ListV(<<TupleV(<<IntV(1), IntV(2)>>)>>), ListV(<<ListV(<<IntV(2)>>), IntV(2)>>)}

OpsInit ==
    /\ LexIdle /\ npos_at_end = FALSE /\ ReorderIdle /\ EvalIdle /\ TupleIdle
    /\ null_deref_traps \in BOOLEAN
    /\ lhs \in Operands /\ rhs \in Operands
    /\ op = "none" /\ ret = NoEntity /\ opc = "call"

\* how a call ends
Status(r) ==
    IF r.m_type # "NONE" THEN "returned"
    ELSE CASE r.m_value.alt = "throw" -> "thrown" [] r.m_value.alt = "abort" -> "aborted"
           [] r.m_value.alt = "undefined" -> "undefined"

Finish(name, r) ==
    /\ op' = name /\ ret' = r /\ opc' = Status(r)
    /\ UNCHANGED <<lexVars, npos_at_end, reorderVars, null_deref_traps, lhs, rhs, evalVars, tupleVars>>

Plus ==
    /\ opc = "call"
    /\ Finish("+", operator_plus(lhs, rhs))
Minus ==
    /\ opc = "call"
    /\ Finish("-", operator_minus(lhs, rhs))
Times ==
    /\ opc = "call"
    /\ Finish("*", operator_times(lhs, rhs))
Divide ==
    /\ opc = "call"
    /\ Finish("/", operator_divide(lhs, rhs))
Modulo ==
    /\ opc = "call"
    /\ Finish("%", operator_modulo(lhs, rhs))
Power ==
    /\ opc = "call"
    /\ Finish("^", operator_power(lhs, rhs))
BitAnd ==
    /\ opc = "call"
    /\ Finish("&", operator_bitand(lhs, rhs))
BitOr ==
    /\ opc = "call"
    /\ Finish("|", operator_bitor(lhs, rhs))
Shl ==
    /\ opc = "call"
    /\ Finish("<<", operator_shl(lhs, rhs))
Shr ==
    /\ opc = "call"
    /\ Finish(">>", operator_shr(lhs, rhs))
And ==
    /\ opc = "call"
    /\ Finish("&&", operator_and(lhs, rhs))
Or ==
    /\ opc = "call"
    /\ Finish("||", operator_or(lhs, rhs))
Spaceship ==
    /\ opc = "call"
    /\ Finish("<=>", operator_spaceship(lhs, rhs))
Concat ==
    /\ opc = "call"
    /\ Finish("++", operator_concat(lhs, rhs))

Cons ==
    /\ opc = "call"
    /\ Finish(":", operator_cons(lhs, rhs))
Zip ==
    /\ opc = "call"
    /\ Finish(",", operator_zip(lhs, rhs))
Apply ==
    /\ opc = "call"
    /\ Finish("$", operator_apply(lhs, rhs))
Compare ==
    /\ opc = "call"
    /\ Finish("compare", operator_compare(lhs, rhs))
\* operator_abstract: a call that returns has moved both strings away
Abstract ==
    /\ opc = "call"
    /\ op' = "->" /\ ret' = operator_abstract(lhs, rhs)
    /\ opc' = Status(operator_abstract(lhs, rhs))
    /\ IF lhs.m_value.alt = "str_t" /\ rhs.m_value.alt = "str_t"
       THEN lhs' = moved_from(lhs) /\ rhs' = moved_from(rhs)
       ELSE UNCHANGED <<lhs, rhs>>
    /\ UNCHANGED <<lexVars, npos_at_end, reorderVars, null_deref_traps, evalVars, tupleVars>>
\* entity(value) for the primitive that lhs holds
Construct ==
    /\ opc = "call"
    /\ Finish("entity(T&&)", entity(lhs.m_value.alt, ValueOf(lhs.m_value)))
\* entity(lhs), a copy of lhs
CopyConstruct ==
    /\ opc = "call"
    /\ Finish("entity(entity const&)", entity_copy(lhs))
\* lhs = rhs, which returns *this
Assign ==
    /\ opc = "call"
    /\ op' = "=" /\ lhs' = entity_assign(lhs, rhs) /\ ret' = entity_assign(lhs, rhs)
    /\ opc' = "returned"
    /\ UNCHANGED <<lexVars, npos_at_end, reorderVars, null_deref_traps, rhs, evalVars, tupleVars>>

OpsNext ==
    \/ Plus \/ Minus \/ Times \/ Divide \/ Modulo \/ Power \/ BitAnd \/ BitOr
    \/ Shl \/ Shr \/ And \/ Or \/ Spaceship \/ Concat
    \/ Cons \/ Zip \/ Apply \/ Abstract \/ Construct \/ CopyConstruct \/ Assign
    \/ Compare

SpecOps == OpsInit /\ [][OpsNext]_vars

(***************************************************************************)
(* Claims about the operator engine.                                       *)
(***************************************************************************)
IsList(e) == e.m_type = "LIST" /\ e.m_value.alt = "list_t"
IsError(e, msg) == e.m_type = "ERROR" /\ e.m_value.alt = "error_t" /\ ValueOf(e.m_value) = msg

\* C9: for every Int a, a / IntV(0) and a % IntV(0), and a / Real zero, return
\* an Error value with the message "Division by zero"; the call never throws
\* or aborts.
C9_DivisionByZero ==
    (/\ opc # "call" /\ op \in {"/", "%"}
     /\ lhs.m_value.alt = "int_t"
     /\ \/ rhs = IntV(0)
        \/ (op = "/" /\ rhs = RealV(0, 1))) =>
        (opc = "returned" /\ IsError(ret, "Division by zero"))

\* C10: for every operator among + - * / % ^ & | << >> && || <=> ++ and two
\* lists of different lengths the result is an Error value with the message
\* exactly "List size mismatch", and no element past the end of the shorter
\* list is read.
C10_ListSizeMismatch ==
    (/\ opc # "call"
     /\ IsList(lhs) /\ IsList(rhs)
     /\ Len(ValueOf(lhs.m_value)) # Len(ValueOf(rhs.m_value))) =>
        (opc = "returned" /\ IsError(ret, "List size mismatch"))

\* the operators that have a branch for a scalar and a list
Broadcastable == {"+", "-", "*", "/", "%", "^", "&", "|", "<<", ">>", "&&", "||"}
IsScalar(e) == e.m_type \in {"INT", "REAL"} /\ IsArithmetic(e.m_value.alt)

\* C14: for an arithmetic scalar s, a list L of length n and a broadcastable
\* operator, s op L and L op s are lists of length n whose i-th element is
\* s op L[i], respectively L[i] op s.
C14_BroadcastShape ==
    /\ (opc # "call" /\ op \in Broadcastable /\ IsScalar(lhs) /\ IsList(rhs)) =>
          /\ opc = "returned" /\ IsList(ret)
          /\ Len(ret.m_value.items) = Len(rhs.m_value.items)
          /\ \A i \in 1..Len(rhs.m_value.items) :
                ret.m_value.items[i] = apply(op, lhs, rhs.m_value.items[i])
    /\ (opc # "call" /\ op \in Broadcastable /\ IsList(lhs) /\ IsScalar(rhs)) =>
          /\ opc = "returned" /\ IsList(ret)
          /\ Len(ret.m_value.items) = Len(lhs.m_value.items)
          /\ \A i \in 1..Len(lhs.m_value.items) :
                ret.m_value.items[i] = apply(op, lhs.m_value.items[i], rhs)

Tags == {"INT", "REAL", "STR", "LIST", "TUPLE", "FUNC", "ERROR"}
\* the tag of e names the alternative that e holds
Consistent(e) == IsValue(e) /\ e.m_type \in Tags /\ e.m_type = tag_of(e.m_value.alt)

\* C17: the tag of a Value names the case its payload holds after
\* construction from a primitive, after copy construction and after the
\* copy assignment a = b, after which the tag and the payload of a are
\* those of b.
C17_TagMatchesPayload ==
    (opc # "call" /\ op \in {"entity(T&&)", "entity(entity const&)", "="}) =>
        /\ opc = "returned" /\ Consistent(ret)
        /\ (op = "=") =>
              /\ Consistent(lhs)
              /\ lhs.m_type = rhs.m_type /\ lhs.m_value.alt = rhs.m_value.alt

BinaryOperators ==
    {"+", "-", "*", "/", "%", "^", "&", "|", "<<", ">>", "&&", "||", "++", ":", ",", "$", "->"}

\* C18: every binary operator function returns a Value, computed or
\* Error-tagged, for each of the 7 x 7 combinations of operand tags, and
\* never throws.
C18_OperatorsTotal ==
    (opc # "call" /\ op \in BinaryOperators) => (opc = "returned" /\ ret.m_type \in Tags)

IsTuple(e) == e.m_type = "TUPLE" /\ e.m_value.alt = "tuple_t"

\* C19: cons(x, L) for a list L of length n is a list of length n + 1 with
\* x at index 0 and L[i] at index i + 1; for a right operand that is not
\* a list cons returns an Error value.
C19_ConsPrepends ==
    (opc # "call" /\ op = ":") =>
        /\ opc = "returned"
        /\ IsList(rhs) =>
              /\ IsList(ret)
              /\ ret.m_value.items = <<lhs>> \o rhs.m_value.items
        /\ ~IsList(rhs) => ret.m_type = "ERROR"

\* the numeric ordering of two arithmetic values
numeric_ordering(l, r) ==
    LET x == to_real(l.m_value.alt, ValueOf(l.m_value))
        y == to_real(r.m_value.alt, ValueOf(r.m_value))
    IN  IF frac_less(x, y) THEN "less" ELSE IF frac_less(y, x) THEN "greater" ELSE "equivalent"

\* C22: for an Int and a Real in either order, operator <=> gives the
\* numeric ordering and operator_compare gives a Value that is no Error;
\* neither throws.
C22_CrossTypeOrdering ==
    (/\ opc # "call" /\ op \in {"<=>", "compare"}
     /\ {lhs.m_value.alt, rhs.m_value.alt} = {"int_t", "real_t"}) =>
        /\ opc = "returned"
        /\ (op = "<=>") => ret = Ordering(numeric_ordering(lhs, rhs))
        /\ (op = "compare") => (ret.m_type \in Tags /\ ret.m_type # "ERROR")

\* the operators the promotion rule names for two Ints, and the arithmetic ones
IntOperators == {"+", "-", "*", "%", "&", "|", "<<", ">>"}
ArithmeticOperators == {"+", "-", "*", "/", "%"}
ZeroDivisor == op \in {"/", "%"} /\ IsZero(rhs.m_value.alt, ValueOf(rhs.m_value))

\* C26: for two Int operands the result of + - * % & | << >> is tagged Int;
\* with an Int and a Real, or two Reals, the result of an arithmetic
\* operator is tagged Real; and the result of ^ is tagged Real for every
\* pair of Int and Real operands. (A zero divisor is left out.)
C26_NumericPromotion ==
    (/\ opc # "call"
     /\ IsArithmetic(lhs.m_value.alt) /\ IsArithmetic(rhs.m_value.alt)
     /\ ~ZeroDivisor) =>
        LET alts == {lhs.m_value.alt, rhs.m_value.alt}
        IN  /\ (op \in IntOperators /\ alts = {"int_t"}) => ret.m_type = "INT"
            /\ (op \in ArithmeticOperators /\ "real_t" \in alts) => ret.m_type = "REAL"
            /\ (op = "^") => ret.m_type = "REAL"

ListOperators == {"+", "-", "*", "/", "%", "^", "&", "|", "<<", ">>", "&&", "||"}

\* C27: for each of + - * / % ^ & | << >> && || and two Lists of the same
\* length n, the result is a List of length n whose i-th element is the
\* operator applied to the i-th elements of the operands, nested lists
\* included; nothing is written outside the n elements of the result.
C27_ListsElementwise ==
    (/\ opc # "call" /\ op \in ListOperators
     /\ lhs.m_value.alt = "list_t" /\ rhs.m_value.alt = "list_t"
     /\ Len(ValueOf(lhs.m_value)) = Len(ValueOf(rhs.m_value))) =>
        LET l1 == ValueOf(lhs.m_value)
            l2 == ValueOf(rhs.m_value)
        IN  /\ opc = "returned" /\ ret.m_type = "LIST"
            /\ Len(ValueOf(ret.m_value)) = Len(l1)
            /\ \A i \in 1..Len(l1) : ValueOf(ret.m_value)[i] = apply(op, l1[i], l2[i])

\* C20: zip(x, t) for a tuple t with elements t1..tn is the tuple with
\* elements x, t1, .., tn; zip(x, y) for any other y is the tuple (x, y).
C20_ZipPrepends ==
    (opc # "call" /\ op = ",") =>
        /\ opc = "returned" /\ IsTuple(ret)
        /\ ret.m_value.items =
              <<lhs>> \o (IF IsTuple(rhs) THEN rhs.m_value.items ELSE <<rhs>>)

(***************************************************************************)
(* The evaluator: evaluate and the token predicates (ysh.cpp).             *)
(***************************************************************************)
\* expressions of at most MaxExprLen characters are drawn from ExprAlphabet
MaxExprLen == 2

\* find_last_not_of(string const&), as an offset from begin(); npos when
\* every character is in chars
find_last_not_of(str, chars) ==
    LET t == Text(str)
        others == {k \in 1..Len(t) : t[k] \notin chars}
    IN  IF others = {} THEN npos
        ELSE (CHOOSE k \in others : \A j \in others : k >= j) - 1

\* find_first_not_of(string const&, iterator_type pos), offsets from begin()
find_first_not_of_from(str, chars, pos) ==
    LET t == Text(str)
        others == {k \in (pos + 1)..Len(t) : t[k] \notin chars}
    IN  IF others = {} THEN npos
        ELSE (CHOOSE k \in others : \A j \in others : k <= j) - 1

k_digits == {"0", "1", "2", "3", "4", "5", "6", "7", "8", "9"}
\* the letters of k_alpha that the model's texts use, and the underscore
k_alpha == {"a", "c", "e", "g", "h", "i", "m", "n", "o", "s", "x", "_"}
k_alnum == k_alpha \cup k_digits

\* bool is_identifier(input_t token)
is_identifier(token) ==
    LET copy == string_copy(token)
    IN  IF Text(copy)[1] \in k_digits THEN FALSE
        ELSE at_end(find_first_not_of(copy, k_alnum), copy)

\* bool is_integer(input_t token)
is_integer(token) ==
    LET copy == string_copy(token)
    IN  at_end(find_first_not_of(copy, k_digits), copy)

\* bool is_floating_point(input_t token). When the token is all digits both
\* iterators are begin() + npos and *dot_or_e_1 reads outside the buffer:
\* before is what the comparison of that character gives
is_floating_point(token, before) ==
    LET copy == string_copy(token)
        dot_or_e_1 == find_first_not_of(copy, k_digits)
        dot_or_e_2 == find_last_not_of(copy, k_digits)
        ch(offset) == Text(copy)[offset + 1]
    IN  IF dot_or_e_1 = dot_or_e_2
        THEN IF dot_or_e_1 = npos THEN before
             ELSE ch(dot_or_e_1) = "." \/ ch(dot_or_e_1) = "e"
        ELSE /\ ch(dot_or_e_1) = "."
             /\ ch(dot_or_e_2) = "e"
             /\ find_first_not_of_from(copy, k_digits, dot_or_e_1 + 1) = dot_or_e_2

\* function(name): the operator table
fnmap ==
    { << <<"+">>, "YSH_ADD" >>, << <<"&">>, "YSH_AND" >>, << <<"$">>, "YSH_APP" >>,
      << <<"<", "-">>, "YSH_ASSIGN" >>, << <<":">>, "YSH_CONCAT" >>, << <<",">>, "YSH_CONS" >>,
      << <<"/">>, "YSH_DIV" >>, << <<"=">>, "YSH_EQ" >>, << <<">", "=">>, "YSH_GE" >>,
      << <<">">>, "YSH_GT" >>, << <<"<", "=">>, "YSH_LE" >>, << <<"<">>, "YSH_LT" >>,
      << <<"%">>, "YSH_MOD" >>, << <<"*">>, "YSH_MUL" >>, << <<"!", "=">>, "YSH_NE" >>,
      << <<"|">>, "YSH_OR" >>, << <<"^">>, "YSH_POW" >>, << <<";">>, "YSH_SEQ" >>,
      << <<"<", "<">>, "YSH_SHL" >>, << <<">", ">">>, "YSH_SHR" >>, << <<"-">>, "YSH_SUB" >> }
\* fnmap.at(name) throws for a name the table does not hold
function(name) ==
    IF \E e \in fnmap : e[1] = name THEN (CHOOSE e \in fnmap : e[1] = name)[2]
    ELSE "std::out_of_range"

\* a bool, returned where the source returns one
Bool(b) == [m_type |-> "BOOL", m_value |-> Payload("bool", IF b THEN "true" ELSE "false")]

RECURSIVE operator_eq(_, _)
\* std::vector == : the sizes, then the elements in order
RECURSIVE list_eq(_, _, _)
list_eq(l1, l2, k) ==
    IF Len(l1) # Len(l2) THEN Bool(FALSE)
    ELSE IF k > Len(l1) THEN Bool(TRUE)
    ELSE LET eq == operator_eq(l1[k], l2[k])
         IN  IF eq # Bool(TRUE) THEN eq ELSE list_eq(l1, l2, k + 1)
\* operator ==(tuple_t const&, tuple_t const&) noexcept
RECURSIVE tuple_eq(_, _, _)
tuple_eq(t1, t2, k) ==
    IF k <= Len(t1) /\ k <= Len(t2)
    THEN LET eq == operator_eq(t1[k], t2[k])
         IN  IF eq.m_type = "NONE"
             THEN IF eq.m_value.alt = "throw" THEN Raise("abort", "std::terminate") ELSE eq
             ELSE IF eq = Bool(FALSE) THEN eq
             ELSE tuple_eq(t1, t2, k + 1)
    ELSE Bool(k > Len(t1) /\ k > Len(t2))

\* bool operator ==(entity const&, entity const&)
operator_eq(l, r) ==
    IF ~IsValue(l) THEN l ELSE IF ~IsValue(r) THEN r ELSE
    LET a1 == l.m_value.alt  v1 == ValueOf(l.m_value)
        a2 == r.m_value.alt  v2 == ValueOf(r.m_value)
    IN  CASE IsArithmetic(a1) /\ IsArithmetic(a2) -> Bool(to_real(a1, v1) = to_real(a2, v2))
          [] a1 = "func_t" /\ a2 = "func_t" -> Bool(FALSE)
          [] a1 = "error_t" /\ a2 = "error_t" -> Bool(FALSE)
          [] a1 = "str_t" /\ a2 = "str_t" -> Bool(v1 = v2)
          [] a1 = "list_t" /\ a2 = "list_t" -> list_eq(v1, v2, 1)
          [] a1 = "tuple_t" /\ a2 = "tuple_t" -> tuple_eq(v1, v2, 1)
          [] OTHER -> Raise("throw", "Type mismatch.")

\* arg_1 != arg_2, rewritten by the language as !(arg_1 == arg_2)
operator_ne(l, r) ==
    LET eq == operator_eq(l, r)
    IN  IF eq.m_type = "BOOL" THEN Bool(eq = Bool(FALSE)) ELSE eq

\* arg_1 < arg_2 and the like, rewritten by the language as
\* (arg_1 <=> arg_2) < 0: accepted names the orderings that make it true
relational(l, r, accepted) ==
    LET cmp == operator_spaceship(l, r)
    IN  IF cmp.m_type = "NONE" THEN cmp
        ELSE IF cmp.m_type # "ORDERING" THEN Raise("undefined", "list_t as an ordering")
        ELSE Bool(cmp.m_value.what \in accepted)

\* a bool result of app becomes an entity_t through the constructor
from_bool(b) ==
    IF b.m_type = "BOOL" THEN entity("int_t", IF b = Bool(TRUE) THEN 1 ELSE 0) ELSE b

\* the lambda app of evaluate: the switch on function(f). YSH_CONS has no
\* case, control leaves the switch and the lambda without a return
app(f, arg_1, arg_2) ==
    LET fn == function(Text(string_copy(f)))
    IN  CASE fn = "std::out_of_range" -> Raise("throw", "std::out_of_range")
          [] fn = "YSH_ABSTR" -> operator_abstract(arg_1, arg_2)
          [] fn = "YSH_ADD" -> operator_plus(arg_1, arg_2)
          [] fn = "YSH_AND" -> operator_bitand(arg_1, arg_2)
          [] fn = "YSH_APP" -> operator_apply(arg_1, arg_2)
          [] fn = "YSH_ASSIGN" -> entity_copy(entity_assign(arg_1, arg_2))
          [] fn = "YSH_CONCAT" -> operator_concat(arg_1, arg_2)
          [] fn = "YSH_DIV" -> operator_divide(arg_1, arg_2)
          [] fn = "YSH_EQ" -> from_bool(operator_eq(arg_1, arg_2))
          [] fn = "YSH_GE" -> from_bool(relational(arg_1, arg_2, {"greater", "equivalent"}))
          [] fn = "YSH_GT" -> from_bool(relational(arg_1, arg_2, {"greater"}))
          [] fn = "YSH_LE" -> from_bool(relational(arg_1, arg_2, {"less", "equivalent"}))
          [] fn = "YSH_LT" -> from_bool(relational(arg_1, arg_2, {"less"}))
          [] fn = "YSH_MOD" -> operator_modulo(arg_1, arg_2)
          [] fn = "YSH_MUL" -> operator_times(arg_1, arg_2)
          [] fn = "YSH_NE" -> from_bool(operator_ne(arg_1, arg_2))
          [] fn = "YSH_OR" -> operator_bitor(arg_1, arg_2)
          [] fn = "YSH_POW" -> operator_power(arg_1, arg_2)
          [] fn = "YSH_SEQ" -> entity_copy(arg_2)
          [] fn = "YSH_SHL" -> operator_shl(arg_1, arg_2)
          [] fn = "YSH_SHR" -> operator_shr(arg_1, arg_2)
          [] fn = "YSH_SUB" -> operator_minus(arg_1, arg_2)
          [] OTHER -> Raise("undefined", "no return statement")

\* ispunct for the characters of the model's expressions
Punct == {"(", ")", "+", "-", "*", "<", "."}

\* the loop that puts a space on both sides of every punctuation character
RECURSIVE spaced(_, _)
spaced(text, k) ==
    IF k > Len(text) THEN <<>>
    ELSE (IF text[k] \in Punct THEN <<" ", text[k], " ">> ELSE <<text[k]>>) \o spaced(text, k + 1)

\* split(' ') | filter(not empty) | transform(input_t(begin, end)): the
\* maximal runs without a space, as views of buf
RECURSIVE split(_, _, _)
split(buf, k, first) ==
    IF k > Len(buf)
    THEN IF first < Len(buf) THEN <<[buf |-> buf, data |-> first, size |-> Len(buf) - first]>>
         ELSE <<>>
    ELSE IF buf[k] = " "
         THEN (IF first < k - 1 THEN <<[buf |-> buf, data |-> first, size |-> k - 1 - first]>>
               ELSE <<>>) \o split(buf, k + 1, k)
         ELSE split(buf, k + 1, first)

\* std::vector<input_t>(first, last): each element is copy constructed
copy_all(views) == [i \in 1..Len(views) |-> string_copy(views[i])]

ExprAlphabet == {"x", "1", "e", "+", "(", ")", " "}
\* (x <- x + 1)
AssignExpr == <<"(", "x", " ", "<", "-", " ", "x", " ", "+", " ", "1", ")">>
\* (1 + 2 * 3)
ArithExpr == <<"(", "1", " ", "+", " ", "2", " ", "*", " ", "3", ")">>
Exprs == TextsUpTo(ExprAlphabet, MaxExprLen) \cup {AssignExpr, ArithExpr}

\* an env_t: a function from names to entities
NoBindings == [name \in {} |-> NoEntity]
XIsFive == [name \in {<<"x">>} |-> IntV(5)]

EvalInit ==
    /\ LexIdle /\ ReorderIdle /\ TupleIdle
    /\ lhs = NoEntity /\ rhs = NoEntity /\ op = "none" /\ ret = NoEntity /\ opc = "idle"
    /\ npos_at_end \in BOOLEAN
    /\ null_deref_traps \in BOOLEAN
    /\ expr \in Exprs
    /\ env \in {NoBindings, XIsFive}
    /\ g_variables \in {NoBindings, XIsFive}
    /\ spaced_expr = <<>> /\ postfix_tokens = <<>> /\ operands = <<>>
    /\ ek = 0 /\ eret = NoEntity /\ epc = "start"

EvalOnly == UNCHANGED <<lexVars, npos_at_end, reorderVars, null_deref_traps, opsVars, tupleVars>>

\* evaluate up to the loop over the postfix tokens
EvalPrepare ==
    /\ epc = "start"
    /\ LET buf == spaced(expr, 1)
           pf == shunting_yard(copy_all(split(buf, 1, 0)))
       IN  /\ spaced_expr' = buf
           /\ postfix_tokens' = pf.result
           /\ IF pf.ub
              THEN epc' = "undefined" /\ eret' = Raise("undefined", "pop of an empty stack")
              ELSE epc' = "loop" /\ eret' = eret
    /\ ek' = 1
    /\ UNCHANGED <<expr, env, g_variables, operands>>
    /\ EvalOnly

\* the evaluation ends without a value
EvalStop(r) ==
    /\ epc' = Status(r) /\ eret' = r
    /\ UNCHANGED <<operands, g_variables>>
\* operands.push(e) for an entity the step has built
EvalPush(stack, e) ==
    IF IsValue(e)
    THEN operands' = Append(stack, e) /\ UNCHANGED <<epc, eret, g_variables>>
    ELSE EvalStop(e)

\* one iteration of the loop over the postfix tokens
EvalToken ==
    /\ epc = "loop"
    /\ ek <= Len(postfix_tokens)
    /\ LET token == string_copy(postfix_tokens[ek])
       IN  \E before \in BOOLEAN :
             IF is_identifier(token)
             THEN \* g_variables[token] adds an empty entity for a new name, and
                  \* the copy pushed reads through its null m_value
                  IF Text(token) \in DOMAIN g_variables
                  THEN EvalPush(operands, entity_copy(g_variables[Text(token)]))
                  ELSE /\ g_variables' = [name \in DOMAIN g_variables \cup {Text(token)} |->
                                            IF name \in DOMAIN g_variables THEN g_variables[name]
                                            ELSE NoEntity]
                       /\ epc' = IF null_deref_traps THEN "aborted" ELSE "undefined"
                       /\ eret' = Raise(IF null_deref_traps THEN "abort" ELSE "undefined",
                                        "read through null m_value")
                       /\ UNCHANGED operands
             ELSE IF is_integer(token)
             THEN EvalPush(operands, entity("int_t", digits_value(Text(token), 1, 0)))
             ELSE IF is_floating_point(token, before)
             THEN IF HasDigits(Text(token))
                  THEN EvalPush(operands, entity("real_t", Frac(digits_value(Text(token), 1, 0), 1)))
                  ELSE EvalStop(Raise("undefined", "read of an unset double"))
             ELSE IF is_operator(token)
             THEN IF Len(operands) < 2
                  THEN EvalStop(Raise("undefined", "top of an empty stack"))
                  ELSE EvalPush(SubSeq(operands, 1, Len(operands) - 2),
                                app(token, entity_copy(operands[Len(operands) - 1]),
                                           entity_copy(operands[Len(operands)])))
             ELSE UNCHANGED <<operands, epc, eret, g_variables>>
    /\ ek' = ek + 1
    /\ UNCHANGED <<expr, env, spaced_expr, postfix_tokens>>
    /\ EvalOnly

\* the loop is over and evaluate has no return statement: control flows off
\* the end of a function that returns a value
EvalFallOff ==
    /\ epc = "loop"
    /\ ek > Len(postfix_tokens)
    /\ \E how \in {"abort", "undefined"} :
          /\ eret' = Raise(how, "no return statement")
          /\ epc' = Status(eret')
    /\ UNCHANGED <<expr, env, g_variables, spaced_expr, postfix_tokens, operands, ek>>
    /\ EvalOnly

EvalNext == EvalPrepare \/ EvalToken \/ EvalFallOff

SpecEval == EvalInit /\ [][EvalNext]_vars

\* the text holds no assignment operator <-
NoAssign(text) == ~\E i \in 1..(Len(text) - 1) : text[i] = "<" /\ text[i + 1] = "-"
\* the text is an identifier: a letter or _ followed by letters, digits or _
IsName(text) ==
    /\ text # <<>> /\ text[1] \in k_alpha
    /\ \A i \in 1..Len(text) : text[i] \in k_alnum

\* C30: while an expression without <- is evaluated, no step changes the
\* variable store (no name is added, no value replaced, also for a name that
\* is not bound), and what a step pushes for an identifier token is the
\* binding of that identifier in env.
C30_StoreUnchanged ==
    [][NoAssign(expr) =>
        /\ g_variables' = g_variables /\ env' = env
        /\ (Len(operands') > Len(operands) /\ IsName(Text(postfix_tokens[ek]))) =>
              /\ Text(postfix_tokens[ek]) \in DOMAIN env
              /\ operands'[Len(operands')] = env[Text(postfix_tokens[ek])]]_vars

(***************************************************************************)
(* One iteration of the loop of evaluate on its own: the loop is entered   *)
(* with one postfix token, built from a literal, and an operand stack.     *)
(***************************************************************************)
\* deepest operand stack the iteration is started with
MaxStack == 2

\* the operator tokens of g_precedence and ++
OperatorTokens ==
    {e[1] : e \in PrecedenceTable} \cup { <<"+", "+">> }
StackValues ==
    {Holding("int_t", 1), Holding("real_t", [n |-> 2, d |-> 1]), Holding("str_t", <<"a">>),
     Holding("list_t", <<Holding("int_t", 1)>>), Holding("func_t", "f"),
     Holding("error_t", "e")}

StepInit ==
    /\ LexIdle /\ ReorderIdle /\ TupleIdle
    /\ lhs = NoEntity /\ rhs = NoEntity /\ op = "none" /\ ret = NoEntity /\ opc = "idle"
    /\ npos_at_end \in BOOLEAN
    /\ null_deref_traps \in BOOLEAN
    /\ expr = <<>> /\ env = NoBindings /\ g_variables = NoBindings
    /\ spaced_expr = <<>>
    /\ \E text \in OperatorTokens : postfix_tokens = <<View(text)>>
    /\ operands \in TextsUpTo(StackValues, MaxStack)
    /\ ek = 1 /\ eret = NoEntity /\ epc = "loop"

StepNext == EvalToken \/ EvalFallOff

SpecStep == StepInit /\ [][StepNext]_vars

(***************************************************************************)
(* Claims about one iteration of the loop of evaluate.                     *)
(***************************************************************************)
\* the iteration is about to run on an operator token with its two operands
AtOperator(texts) ==
    /\ epc = "loop" /\ ek = 1 /\ Len(postfix_tokens) = 1
    /\ Text(postfix_tokens[1]) \in texts
    /\ Len(operands) >= 2
\* operands.push(e) has happened on the stack without the two operands
Pushed(e) ==
    /\ epc' = "loop"
    /\ operands' = Append(SubSeq(operands, 1, Len(operands) - 2), e)
\* the iteration ended as the builtin call r ends
Obtained(r) == IF IsValue(r) THEN Pushed(r) ELSE epc' = Status(r) /\ eret' = r

ComparisonTokens ==
    { <<"<">>, <<">">>, <<"<", "=">>, <<">", "=">>, <<"=">>, <<"!", "=">> }

\* C23: on a comparison token (< > <= >= = !=) with a Func or an Error as
\* either operand, the iteration pushes an Error-tagged value on the operand
\* stack and does not throw.
C23_ComparisonsWrapped ==
    [][(/\ AtOperator(ComparisonTokens)
        /\ \E i \in {Len(operands) - 1, Len(operands)} :
              operands[i].m_value.alt \in {"func_t", "error_t"}) =>
            /\ epc' = "loop"
            /\ Len(operands') = Len(operands) - 1
            /\ operands'[Len(operands')].m_type = "ERROR"]_vars

\* C24: on an operator token with fewer than two operands on the stack the
\* iteration ends the evaluation with a thrown error; it neither reads the
\* top of an empty stack nor yields a value.
C24_UnderflowIsFatal ==
    [][(/\ epc = "loop" /\ ek = 1 /\ Len(postfix_tokens) = 1
        /\ Text(postfix_tokens[1]) \in OperatorTokens
        /\ Len(operands) < 2) =>
            (epc' = "thrown" /\ operands' = operands)]_vars

\* C28: every operator token is dispatched to the builtin documented for
\* it and the iteration obtains that builtin's result: : is cons, , is zip,
\* -> is abstraction, ++ is concat, $ is application and ; yields the right
\* operand.
C28_DispatchTable ==
    [][AtOperator(OperatorTokens) =>
        LET lhs_1 == entity_copy(operands[Len(operands) - 1])
            rhs_1 == entity_copy(operands[Len(operands)])
            text == Text(postfix_tokens[1])
        IN  /\ (text = <<":">>) => Obtained(operator_cons(lhs_1, rhs_1))
            /\ (text = <<",">>) => Obtained(operator_zip(lhs_1, rhs_1))
            /\ (text = <<"-", ">">>) => Obtained(operator_abstract(lhs_1, rhs_1))
            /\ (text = <<"+", "+">>) => Obtained(operator_concat(lhs_1, rhs_1))
            /\ (text = <<"$">>) => Obtained(operator_apply(lhs_1, rhs_1))
            /\ (text = <<";">>) => Obtained(entity_copy(rhs_1))
            /\ (epc' = "loop" => Len(operands') = Len(operands) - 1)]_vars

(***************************************************************************)
(* Claims about the evaluator.                                             *)
(***************************************************************************)
EvalEnded == epc \in {"returned", "thrown", "aborted", "undefined"}

\* C1: with env binding x to Int(5), evaluate("(x <- x + 1)", env) returns
\* Int(6) and afterwards env["x"] is Int(6).
C1_AssignExample ==
    (EvalEnded /\ expr = AssignExpr /\ env = XIsFive) =>
        /\ epc = "returned" /\ eret = IntV(6)
        /\ <<"x">> \in DOMAIN env /\ env[<<"x">>] = IntV(6)

\* C2: with an empty env, evaluate("(1 + 2 * 3)", env) returns Int(7), the
\* single value left on the operand stack.
C2_ArithExample ==
    (EvalEnded /\ expr = ArithExpr /\ env = NoBindings) =>
        /\ epc = "returned" /\ eret = IntV(7)
        /\ Len(operands) = 1

(***************************************************************************)
(* tuple_t on its own: the range constructor, to_list and concat.  A       *)
(* tuple is the sequence of its elements, head first.                      *)
(***************************************************************************)
\* longest range handed to the range constructor
MaxRangeLen == 3
\* longest tuple drawn as an operand of concat
MaxTupleLen == 2

\* tuple_t::tuple_t(InputIt first, InputIt last): the first iteration sets
\* this->data; every iteration leaves tupptr at &this->content().second, the
\* tail of the first node, so every later iteration replaces that tail
RECURSIVE range_loop(_, _, _)
range_loop(sq, k, data) ==
    IF k > Len(sq) THEN data
    ELSE range_loop(sq, k + 1,
                    IF k = 1 THEN <<entity_copy(sq[k])>>
                    ELSE <<data[1], entity_copy(sq[k])>>)
tuple_from_range(sq) == range_loop(sq, 1, <<>>)

\* tuple_t::to_list: for_each visits head to tail, push_back copies the item
to_list(t) == [i \in 1..Len(t) |-> entity_copy(t[i])]

TupleElements == {Holding("int_t", 1), Holding("int_t", 2)}
Ranges == TextsUpTo(TupleElements, MaxRangeLen)
Tuples == TextsUpTo(TupleElements, MaxTupleLen)

TupleInit ==
    /\ LexIdle /\ npos_at_end = FALSE /\ ReorderIdle /\ OpsIdle /\ EvalIdle
    /\ range \in Ranges
    /\ tup_a \in Tuples /\ tup_b \in Tuples /\ tup_c \in Tuples
    /\ tuple_out = <<>> /\ other_out = <<>> /\ list_out = <<>> /\ eq_out = NoEntity
    /\ upc = "call"

TupleOnly ==
    UNCHANGED <<lexVars, npos_at_end, reorderVars, null_deref_traps, opsVars, evalVars,
                range, tup_a, tup_b, tup_c>>

\* tuple_t(first, last).to_list()
RangeToList ==
    /\ upc = "call"
    /\ tuple_out' = tuple_from_range(range)
    /\ list_out' = to_list(tuple_from_range(range))
    /\ upc' = "listed"
    /\ UNCHANGED <<other_out, eq_out>>
    /\ TupleOnly

\* a.concat(b)
TupleConcat ==
    /\ upc = "call"
    /\ tuple_out' = tuple_concat(tup_a, tup_b)
    /\ upc' = "concatenated"
    /\ UNCHANGED <<other_out, list_out, eq_out>>
    /\ TupleOnly

\* a.concat(b).concat(c) == a.concat(b.concat(c))
ConcatBothWays ==
    /\ upc = "call"
    /\ tuple_out' = tuple_concat(tuple_concat(tup_a, tup_b), tup_c)
    /\ other_out' = tuple_concat(tup_a, tuple_concat(tup_b, tup_c))
    /\ eq_out' = tuple_eq(tuple_concat(tuple_concat(tup_a, tup_b), tup_c),
                          tuple_concat(tup_a, tuple_concat(tup_b, tup_c)), 1)
    /\ upc' = "compared"
    /\ UNCHANGED list_out
    /\ TupleOnly

\* tuple_t::operator =(tuple_t const&): the elements of other are pushed
\* head first onto whatever this holds
tuple_assign(this, other) == tuple_copy(other) \o this

\* a = b for two tuples, which returns *this
TupleAssign ==
    /\ upc = "call"
    /\ tup_a' = tuple_assign(tup_a, tup_b)
    /\ tuple_out' = tuple_assign(tup_a, tup_b)
    /\ upc' = "assigned"
    /\ UNCHANGED <<other_out, list_out, eq_out>>
    /\ UNCHANGED <<lexVars, npos_at_end, reorderVars, null_deref_traps, opsVars, evalVars,
                   range, tup_b, tup_c>>

TupleNext == RangeToList \/ TupleConcat \/ ConcatBothWays \/ TupleAssign

SpecTuple == TupleInit /\ [][TupleNext]_vars

(***************************************************************************)
(* Claims about tuple_t.                                                   *)
(***************************************************************************)
\* C11: the tuple built by the range constructor from v1..vn has n elements
\* and its to_list() is v1..vn in the same order.
C11_TupleRoundTrip ==
    (upc = "listed") => (Len(tuple_out) = Len(range) /\ list_out = range)

\* C12: concat(a, b) holds the elements of a in a's order followed by the
\* elements of b in b's order.
C12_ConcatOrder ==
    (upc = "concatenated") => (tuple_out = tup_a \o tup_b)

\* C13: concat(concat(a, b), c) equals concat(a, concat(b, c)), element for
\* element and under operator == of tuple_t.
C13_ConcatAssociative ==
    (upc = "compared") => (eq_out = Bool(TRUE) /\ tuple_out = other_out)

\* C21: after the copy assignment d = s of tuples, the elements of d are
\* those of s in reverse order, whatever d held before, and s is unchanged.
C21_AssignReverses ==
    (upc = "assigned") => (tup_a = Reverse(tup_b) /\ tuple_out = Reverse(tup_b))

=============================================================================
